---- MODULE Spec2Model ----
(***************************************************************************)
(* Model of dynatrace-problem-forwarder: the polling loop of the           *)
(* ForwardingEngine (src/forwarder/engine.rs), the tracking store          *)
(* (src/storage/database.rs), the connector delivery with retry            *)
(* (src/forwarder/connector.rs, retry.rs) and the clear-cache command      *)
(* (src/main.rs).                                                          *)
(***************************************************************************)
EXTENDS Naturals, Sequences, FiniteSets, Bags, TLC

(***************************************************************************)
(* Bounds of the model.                                                    *)
(***************************************************************************)
\* poll cycles the engine is allowed to start
MaxCycles == 2
\* records in one flattened fetch result
MaxFetch == 2
\* pages one fetch may be split into
MaxPages == 2
\* runs of the clear-cache command
MaxClears == 1

(***************************************************************************)
(* Program constants.                                                      *)
(***************************************************************************)
\* connector.rs: self.config.retry_attempts.unwrap_or(3)
DefaultRetryAttempts == 3

ProblemIds == {"P1", "P2"}

\* dynatrace/models.rs: enum ProblemStatus { Open, Closed, Resolved }
ProblemStatus == {"Open", "Closed", "Resolved"}

\* impl ToString for ProblemStatus
to_string(status) ==
    CASE status = "Open" -> "OPEN"
      [] status = "Closed" -> "CLOSED"
      [] status = "Resolved" -> "RESOLVED"

\* the statuses the remote API reports in the fetches of the model
FetchedStatus == {"Open", "Resolved"}

\* dynatrace/models.rs: struct Problem (the fields the engine reads)
Problem == [problem_id : ProblemIds, status : FetchedStatus]

\* Option<T> is a sequence of length 0 (None) or 1 (Some)
None == << >>
Some(x) == << x >>
is_some(o) == Len(o) > 0
unwrap_or(o, d) == IF is_some(o) THEN o[1] ELSE d

VARIABLES
    connectors,          \* ForwardingEngine.connectors (configuration)
    forwarded_problems,  \* table forwarded_problems, rows in rowid order
    forward_history,     \* table forward_history, a bag of rows
    now,                 \* Utc::now().timestamp()
    pc,                  \* where ForwardingEngine::run is
    cycle,               \* number of poll_and_forward calls started
    response,            \* response.problems of the running cycle
    i,                   \* records of response already classified
    actions,             \* outcome of check_problem for each classified record
    problems_to_forward, \* poll_and_forward's problems_to_forward
    new_problems,        \* poll_and_forward's counters
    status_changes,
    skipped,
    forward_tasks,       \* the spawned delivery tasks the runtime still holds
    poll_result,         \* what the latest poll_and_forward returned
    cleared,             \* the latest clear-cache: the count it returned, the
                         \* cycle during or after which it ran, where the
                         \* engine was, and how many times the command has run
    new_count,           \* per problem id, the inserts check_problem has made
                         \* for it since the latest clear-cache
    last_seen,           \* per problem id, the status check_problem last wrote
                         \* for it (insert or update returned Ok) since the
                         \* latest clear-cache
    first_new,           \* per problem id, the status and the cycle of its
                         \* insert since the latest clear-cache (history)
    db_call,             \* the latest call made directly on the Database API:
                         \* its number, the method, the problem id, the Result
    last_fanout,         \* what the connectors got in the latest completed
                         \* fan-out: its cycle, and each (connector, problem)
                         \* with the task's final result
    shutdown_handle,     \* main.rs: the JoinHandle of the shutdown handler,
                         \* "pending" until the handler's future resolves
    at_signal,           \* the delivery tasks whose first request was in
                         \* flight when the handler's future resolved
    starts,              \* run commands started over the database file
    interrupted,         \* the records a cycle had classified for forwarding
                         \* when the process exited before any connector got a
                         \* request for them, and the number of that cycle
    tests,               \* the Connector::test calls of the test-connectors
                         \* command, one task for each connector tested
    fetched,             \* the latest call made directly on
                         \* DynatraceClient::fetch_problems: the pages the
                         \* remote API answered with and the Result
    checking             \* the check_problem call in progress: the await it
                         \* has returned from ("idle" when none is running),
                         \* what get_problem returned and, after the write,
                         \* the ProcessAction or Err it will return

vars == << connectors, forwarded_problems, forward_history, now, pc, cycle,
           response, i, actions, problems_to_forward, new_problems,
           status_changes, skipped, forward_tasks, poll_result, cleared,
           new_count, last_seen, first_new, db_call, last_fanout,
           shutdown_handle, at_signal, starts, interrupted, tests, fetched, checking >>

(***************************************************************************)
(* Tracking store: storage/models.rs, storage/database.rs                  *)
(***************************************************************************)
\* a ForwardedProblem whose forward_count starts at 0
ForwardedProblemUncounted(problem_id, status, t) ==
    [ problem_id |-> problem_id,
      status |-> status,
      first_seen_at |-> t,
      last_forwarded_at |-> t,
      last_status_change_at |-> t,
      forward_count |-> 0,
      created_at |-> t,
      updated_at |-> t ]

\* ForwardedProblem::new: forward_count starts at 1, every timestamp is now
ForwardedProblemNew(problem_id, status, t) ==
    [ problem_id |-> problem_id,
      status |-> status,
      first_seen_at |-> t,
      last_forwarded_at |-> t,
      last_status_change_at |-> t,
      forward_count |-> 1,
      created_at |-> t,
      updated_at |-> t ]

\* ForwardHistory::new
ForwardHistoryNew(problem_id, connector_name, status, response_code, error_message, t) ==
    [ problem_id |-> problem_id,
      connector_name |-> connector_name,
      status |-> status,
      response_code |-> response_code,
      error_message |-> error_message,
      forwarded_at |-> t ]

RowsOf(db, problem_id) ==
    SelectSeq(db, LAMBDA row : row.problem_id = problem_id)

\* Database::get_problem: SELECT ... WHERE problem_id = ?, fetch_optional
get_problem(db, problem_id) ==
    IF Len(RowsOf(db, problem_id)) = 0
    THEN None
    ELSE Some(Head(RowsOf(db, problem_id)))

\* Database::insert_problem: INSERT INTO forwarded_problems
insert_problem(db, problem) ==
    Append(db, problem)

\* an UPDATE that counts the forward and leaves the status column alone
update_problem_status_count_only(db, problem_id, new_status, t) ==
    [ k \in 1..Len(db) |->
        IF db[k].problem_id = problem_id
        THEN [ db[k] EXCEPT !.last_forwarded_at = t,
                            !.forward_count = @ + 1,
                            !.updated_at = t ]
        ELSE db[k] ]

\* an UPDATE that restarts forward_count at 1
update_problem_status_recount(db, problem_id, new_status, t) ==
    [ k \in 1..Len(db) |->
        IF db[k].problem_id = problem_id
        THEN [ db[k] EXCEPT !.status = new_status,
                            !.last_forwarded_at = t,
                            !.last_status_change_at = t,
                            !.forward_count = 1,
                            !.updated_at = t ]
        ELSE db[k] ]

\* Database::update_problem_status: UPDATE ... SET status = ?, last_forwarded_at = now,
\* last_status_change_at = now, forward_count = forward_count + 1, updated_at = now
\* WHERE problem_id = ?
update_problem_status(db, problem_id, new_status, t) ==
    [ k \in 1..Len(db) |->
        IF db[k].problem_id = problem_id
        THEN [ db[k] EXCEPT !.status = new_status,
                            !.last_forwarded_at = t,
                            !.last_status_change_at = t,
                            !.forward_count = @ + 1,
                            !.updated_at = t ]
        ELSE db[k] ]

\* Database::update_last_forwarded: UPDATE ... SET last_forwarded_at = now,
\* forward_count = forward_count + 1, updated_at = now WHERE problem_id = ?
update_last_forwarded(db, problem_id, t) ==
    [ k \in 1..Len(db) |->
        IF db[k].problem_id = problem_id
        THEN [ db[k] EXCEPT !.last_forwarded_at = t,
                            !.forward_count = @ + 1,
                            !.updated_at = t ]
        ELSE db[k] ]

\* Database::insert_forward_history: INSERT INTO forward_history
insert_forward_history(history_table, history) ==
    history_table (+) SetToBag({history})

\* a DELETE that spares the rows of resolved problems
clear_unresolved_problems(db) ==
    [ db |-> SelectSeq(db, LAMBDA row : row.status = "RESOLVED"),
      rows_affected |-> Len(SelectSeq(db, LAMBDA row : row.status # "RESOLVED")) ]

\* Database::clear_all_problems: DELETE FROM forwarded_problems, rows_affected
clear_all_problems(db) ==
    [ db |-> << >>, rows_affected |-> Len(db) ]

(***************************************************************************)
(* The Database methods as a caller sees them: the Result and the table.   *)
(* insert_problem itself is a plain INSERT; whether it can fail on an id   *)
(* that has a row is decided by the table's schema, which run_migrations   *)
(* includes from migrations/001_initial_schema.sql. That file is not among *)
(* the sources, so the constraint is taken from the specification          *)
(* ("problem_id is unique", "insert fails with ConflictError if problem_id *)
(* already present"): SQLite refuses the row, and the "?" after            *)
(* execute().await returns the sqlx error as ForwarderError::Database.     *)
(***************************************************************************)
\* the specification's uniqueness of forwarded_problems.problem_id: this row
\* would be refused
unique_violation(db, problem) ==
    is_some(get_problem(db, problem.problem_id))

\* an INSERT OR REPLACE: the row of the same problem_id is overwritten
insert_or_replace_call(db, problem) ==
    [ result |-> "Ok",
      db |-> Append(SelectSeq(db, LAMBDA row : row.problem_id # problem.problem_id),
                    problem) ]

\* Database::insert_problem with its Result. The Ok branch is the code's
\* INSERT; the conflict branch is the specification's ConflictError, the
\* unique-constraint failure wrapped by ForwarderError::Database
insert_problem_call(db, problem) ==
    IF unique_violation(db, problem)
    THEN [ result |-> "Err(Database(unique_violation))", db |-> db ]
    ELSE [ result |-> "Ok", db |-> insert_problem(db, problem) ]

\* Database::update_problem_status with its Result: execute() is Ok whatever
\* the number of rows the UPDATE matched
update_problem_status_call(db, problem_id, new_status, t) ==
    [ result |-> "Ok", db |-> update_problem_status(db, problem_id, new_status, t) ]

\* Database::update_last_forwarded with its Result
update_last_forwarded_call(db, problem_id, t) ==
    [ result |-> "Ok", db |-> update_last_forwarded(db, problem_id, t) ]

(***************************************************************************)
(* Classification: ForwardingEngine::check_problem                         *)
(* db is the table as it is when the write runs, db_problem what the       *)
(* get_problem awaited before it returned. db_error names the store call   *)
(* that fails in this classification: "none", "get_problem" or "write"     *)
(* (insert_problem/update_problem_status). The result is the ProcessAction, *)
(* or Err with the call that failed, and the table after the write.        *)
(***************************************************************************)
DbErrors == {"none", "get_problem", "write"}

ProcessAction == {"NewProblem", "StatusChange", "Skipped"}

IsErr(action) == action \notin ProcessAction

\* a check_problem that compares the stored text with the enum's variant name
\* instead of status.to_string()
check_problem_raw_status(db, db_problem, problem, db_error, t) ==
    IF db_error = "get_problem"
    THEN [ action |-> "Err(get_problem)", db |-> db ]
    ELSE IF ~is_some(db_problem)
    THEN IF db_error = "write"
         THEN [ action |-> "Err(insert_problem)", db |-> db ]
         ELSE [ action |-> "NewProblem",
                db |-> insert_problem(db,
                          ForwardedProblemNew(problem.problem_id,
                                              to_string(problem.status), t)) ]
    ELSE IF db_problem[1].status # problem.status
    THEN IF db_error = "write"
         THEN [ action |-> "Err(update_problem_status)", db |-> db ]
         ELSE [ action |-> "StatusChange",
                db |-> update_problem_status(db, problem.problem_id,
                                             to_string(problem.status), t) ]
    ELSE [ action |-> "Skipped", db |-> db ]

\* a check_problem that records a status change as a further row
check_problem_append(db, db_problem, problem, db_error, t) ==
    IF db_error = "get_problem"
    THEN [ action |-> "Err(get_problem)", db |-> db ]
    ELSE IF ~is_some(db_problem)
    THEN IF db_error = "write"
         THEN [ action |-> "Err(insert_problem)", db |-> db ]
         ELSE [ action |-> "NewProblem",
                db |-> insert_problem(db,
                          ForwardedProblemNew(problem.problem_id,
                                              to_string(problem.status), t)) ]
    ELSE IF db_problem[1].status # to_string(problem.status)
    THEN IF db_error = "write"
         THEN [ action |-> "Err(update_problem_status)", db |-> db ]
         ELSE [ action |-> "StatusChange",
                db |-> insert_problem(db,
                          ForwardedProblemNew(problem.problem_id,
                                              to_string(problem.status), t)) ]
    ELSE [ action |-> "Skipped", db |-> db ]

\* a check_problem that classifies a new problem without tracking it
check_problem_untracked(db, db_problem, problem, db_error, t) ==
    IF db_error = "get_problem"
    THEN [ action |-> "Err(get_problem)", db |-> db ]
    ELSE IF ~is_some(db_problem)
    THEN IF db_error = "write"
         THEN [ action |-> "Err(insert_problem)", db |-> db ]
         ELSE [ action |-> "NewProblem",
                db |-> db ]
    ELSE IF db_problem[1].status # to_string(problem.status)
    THEN IF db_error = "write"
         THEN [ action |-> "Err(update_problem_status)", db |-> db ]
         ELSE [ action |-> "StatusChange",
                db |-> db ]
    ELSE [ action |-> "Skipped", db |-> db ]

\* ForwardingEngine::check_problem
check_problem(db, db_problem, problem, db_error, t) ==
    IF db_error = "get_problem"
    THEN [ action |-> "Err(get_problem)", db |-> db ]
    ELSE IF ~is_some(db_problem)
    THEN IF db_error = "write"
         THEN [ action |-> "Err(insert_problem)", db |-> db ]
         ELSE [ action |-> "NewProblem",
                db |-> insert_problem(db,
                          ForwardedProblemNew(problem.problem_id,
                                              to_string(problem.status), t)) ]
    ELSE IF db_problem[1].status # to_string(problem.status)
    THEN IF db_error = "write"
         THEN [ action |-> "Err(update_problem_status)", db |-> db ]
         ELSE [ action |-> "StatusChange",
                db |-> update_problem_status(db, problem.problem_id,
                                             to_string(problem.status), t) ]
    ELSE [ action |-> "Skipped", db |-> db ]

(***************************************************************************)
(* Fetch: DynatraceClient::fetch_problems follows nextPageKey.             *)
(* A page is what one GET returns: ok = FALSE for a transport error or a   *)
(* non-2xx status, next_page_key = TRUE when the page names a next page.   *)
(***************************************************************************)
RECURSIVE FetchLoop(_, _, _)
FetchLoop(pages, page_num, all_problems) ==
    IF ~pages[page_num].ok
    THEN [ ok |-> FALSE, problems |-> << >>, next_page_key |-> FALSE ]
    ELSE IF pages[page_num].next_page_key
    THEN FetchLoop(pages, page_num + 1, all_problems \o pages[page_num].problems)
    ELSE [ ok |-> TRUE,
           problems |-> all_problems \o pages[page_num].problems,
           next_page_key |-> FALSE ]

\* a fetch that returns the first page as it came
fetch_first_page(pages) ==
    IF pages[1].ok
    THEN [ ok |-> TRUE, problems |-> pages[1].problems,
           next_page_key |-> pages[1].next_page_key ]
    ELSE [ ok |-> FALSE, problems |-> << >>, next_page_key |-> FALSE ]

\* DynatraceClient::fetch_problems
fetch_problems(pages) ==
    FetchLoop(pages, 1, << >>)

\* the record lists the remote API may hold
RecordLists ==
    UNION { [1..n -> Problem] : n \in 0..MaxFetch }

SubSeqOrEmpty(s, a, b) ==
    IF a > b THEN << >> ELSE SubSeq(s, a, b)

\* the list cut into n pages at the cut points c (non-decreasing), the last page
\* carrying no nextPageKey
PagesOf(list, n, c) ==
    [ k \in 1..n |->
        [ ok |-> TRUE,
          problems |-> SubSeqOrEmpty(list,
                          (IF k = 1 THEN 0 ELSE c[k - 1]) + 1,
                          IF k = n THEN Len(list) ELSE c[k]),
          next_page_key |-> k < n ] ]

Cuts(len, n) ==
    { c \in [1..(n - 1) -> 0..len] :
        \A k \in 1..(n - 1) : k > 1 => c[k - 1] <= c[k] }

GoodPageSeqs ==
    UNION { { PagesOf(list, n, c) : c \in Cuts(Len(list), n) } :
            << list, n >> \in RecordLists \X (1..MaxPages) }

FailAt(pages, k) ==
    [ j \in 1..k |-> IF j = k THEN [ pages[j] EXCEPT !.ok = FALSE ] ELSE pages[j] ]

\* what the remote API may answer to the GETs of one fetch
FetchInputs ==
    GoodPageSeqs \cup
    UNION { { FailAt(pages, k) : k \in 1..Len(pages) } : pages \in GoodPageSeqs }

(***************************************************************************)
(* Connectors and delivery tasks: forwarder/connector.rs, retry.rs and     *)
(* the tasks of ForwardingEngine::forward_collected_problems.              *)
(***************************************************************************)
\* connector lists the engine is constructed with: one batch connector;
\* a batch connector and an individual one that retries
ConnectorConfigs ==
    { << [ name |-> "siem", batch_mode |-> TRUE, retry_attempts |-> Some(1) ] >> }

FanoutConfigs ==
    { << [ name |-> "siem", batch_mode |-> TRUE, retry_attempts |-> Some(1) ],
         [ name |-> "pager", batch_mode |-> FALSE, retry_attempts |-> Some(2) ] >> }

\* Connector::is_batch_mode
is_batch_mode(connector) == connector.batch_mode

\* max_attempts = self.config.retry_attempts.unwrap_or(3)
max_attempts(connector) == unwrap_or(connector.retry_attempts, DefaultRetryAttempts)

\* what one request can end in: a response with a status code, or a transport error
HttpOutcomes ==
    { [ kind |-> "response", code |-> 200 ],
      [ kind |-> "response", code |-> 500 ],
      [ kind |-> "transport", code |-> 0 ] }

\* reqwest StatusCode::is_success
is_success(code) == code >= 200 /\ code < 300

\* a send_request that returns Ok for whatever response arrives
send_request_any_response(outcome) ==
    IF outcome.kind = "response"
    THEN [ ok |-> TRUE, code |-> outcome.code, message |-> "" ]
    ELSE [ ok |-> FALSE, code |-> 0, message |-> "transport error" ]

\* send_request / send_batch_request: Ok(response) only for a 2xx response
send_request(outcome) ==
    IF outcome.kind = "response" /\ is_success(outcome.code)
    THEN [ ok |-> TRUE, code |-> outcome.code, message |-> "" ]
    ELSE IF outcome.kind = "response"
    THEN [ ok |-> FALSE, code |-> outcome.code, message |-> "HTTP error" ]
    ELSE [ ok |-> FALSE, code |-> 0, message |-> "transport error" ]

RECURSIVE Pow2(_)
Pow2(n) == IF n = 0 THEN 1 ELSE 2 * Pow2(n - 1)

\* a spawned task before its first attempt
NewTask(cyc, connector, problems) ==
    [ cycle |-> cyc,
      connector |-> connector,
      problems |-> problems,
      attempt |-> 0,
      sent |-> << >>,
      delays |-> << >>,
      result |-> "pending",
      response_code |-> None,
      error_message |-> None,
      recorded |-> 0,
      done |-> FALSE ]

\* a retry loop that gives up one attempt early
retry_one_short(task, max, outcome) ==
    LET attempt == task.attempt + 1
        sent == send_request(outcome)
    IN  IF sent.ok
        THEN [ task EXCEPT !.attempt = attempt,
                           !.sent = Append(@, sent),
                           !.result = "success",
                           !.response_code = Some(sent.code) ]
        ELSE IF attempt + 1 < max
        THEN [ task EXCEPT !.attempt = attempt,
                           !.sent = Append(@, sent),
                           !.delays = Append(@, Pow2(attempt - 1)) ]
        ELSE [ task EXCEPT !.attempt = attempt,
                           !.sent = Append(@, sent),
                           !.result = "failed",
                           !.error_message = Some(sent.message) ]

\* a retry loop whose delay is 2^attempt
retry_late_exponent(task, max, outcome) ==
    LET attempt == task.attempt + 1
        sent == send_request(outcome)
    IN  IF sent.ok
        THEN [ task EXCEPT !.attempt = attempt,
                           !.sent = Append(@, sent),
                           !.result = "success",
                           !.response_code = Some(sent.code) ]
        ELSE IF attempt < max
        THEN [ task EXCEPT !.attempt = attempt,
                           !.sent = Append(@, sent),
                           !.delays = Append(@, Pow2(attempt)) ]
        ELSE [ task EXCEPT !.attempt = attempt,
                           !.sent = Append(@, sent),
                           !.result = "failed",
                           !.error_message = Some(sent.message) ]

\* one turn of the loop of retry_with_backoff around send_request
retry_with_backoff(task, max, outcome) ==
    LET attempt == task.attempt + 1
        sent == send_request(outcome)
    IN  IF sent.ok
        THEN [ task EXCEPT !.attempt = attempt,
                           !.sent = Append(@, sent),
                           !.result = "success",
                           !.response_code = Some(sent.code) ]
        ELSE IF attempt < max
        THEN [ task EXCEPT !.attempt = attempt,
                           !.sent = Append(@, sent),
                           !.delays = Append(@, Pow2(attempt - 1)) ]
        ELSE [ task EXCEPT !.attempt = attempt,
                           !.sent = Append(@, sent),
                           !.result = "failed",
                           !.error_message = Some(sent.message) ]

Indices(seq) == [ k \in 1..Len(seq) |-> k ]

\* a partition that puts every connector in the batch group too
every_connector(conns) == Indices(conns)

\* self.connectors.iter().partition(|c| c.is_batch_mode())
batch_connectors(conns) ==
    SelectSeq(Indices(conns), LAMBDA c : is_batch_mode(conns[c]))

individual_connectors(conns) ==
    SelectSeq(Indices(conns), LAMBDA c : ~is_batch_mode(conns[c]))

\* a fan-out that spawns the batch tasks only
SpawnBatchTasks(conns, problems, cyc) ==
    [ k \in 1..Len(batch_connectors(conns)) |->
        NewTask(cyc, batch_connectors(conns)[k], problems) ]

\* a fan-out that treats every connector as an individual-mode connector
SpawnTaskPerRecord(conns, problems, cyc) ==
    [ k \in 1..(Len(conns) * Len(problems)) |->
        NewTask(cyc, ((k - 1) \div Len(problems)) + 1,
                << problems[((k - 1) % Len(problems)) + 1] >>) ]

\* the tasks forward_collected_problems spawns, in spawn order
SpawnTasks(conns, problems, cyc) ==
    LET batch == batch_connectors(conns)
        individual == individual_connectors(conns)
        n == Len(problems)
    IN  [ k \in 1..Len(batch) |-> NewTask(cyc, batch[k], problems) ]
        \o
        [ k \in 1..(Len(individual) * n) |->
            NewTask(cyc, individual[((k - 1) \div n) + 1],
                    << problems[((k - 1) % n) + 1] >>) ]

\* a history row that keeps the HTTP status of the last response next to the
\* error of a failed delivery
HistoryWithLastCode(task, conns, problem, t) ==
    ForwardHistoryNew(problem.problem_id, conns[task.connector].name, task.result,
                      Some(task.sent[Len(task.sent)].code),
                      task.error_message, t)

\* the history row a finished task writes for one of its problems
HistoryOf(task, conns, problem, t) ==
    ForwardHistoryNew(problem.problem_id, conns[task.connector].name,
                      task.result, task.response_code, task.error_message, t)

\* a fan-out that returns without awaiting the JoinHandles
NoWait(tasks) == TRUE

\* "Wait for all tasks to complete": every JoinHandle has resolved
AllTasksComplete(tasks) ==
    \A k \in 1..Len(tasks) : tasks[k].done

\* a loop that is left once its first record is classified
FirstRecordDone == IF Len(response) = 0 THEN TRUE ELSE i >= 1

\* the for loop over response.problems has consumed every record
ClassificationDone == i = Len(response)

\* a run that propagates the error of poll_and_forward out of the loop
AfterPollOrExit(result) == IF result = "Err" THEN "exit" ELSE "sleep"

\* ForwardingEngine::run: whatever poll_and_forward returned, sleep and loop
AfterPoll(result) == "sleep"

NoCall ==
    [ seq |-> 0, op |-> "none", problem_id |-> "none", status |-> "none",
      result |-> "none" ]

NoneSeen == [ id \in ProblemIds |-> "none" ]

NoneInterrupted == [ problems |-> {}, cycle |-> 0 ]

NotChecking ==
    [ stage |-> "idle", db_error |-> "none", db_problem |-> None, action |-> "none" ]

NoFetch ==
    [ pages |-> << >>,
      result |-> [ ok |-> FALSE, problems |-> << >>, next_page_key |-> FALSE ] ]

\* the database files the engine is started over: a new one, and one in which
\* an earlier run (at time 0) has tracked P1 as OPEN
PersistedStores ==
    { << >>, << ForwardedProblemNew("P1", "OPEN", 0) >> }

NewStores == { << >> }

SeenIn(db) ==
    [ id \in ProblemIds |->
        IF is_some(get_problem(db, id)) THEN get_problem(db, id)[1].status ELSE "none" ]

(***************************************************************************)
(* Initial state: ForwardingEngine::new over a database file.              *)
(***************************************************************************)
InitOver(configs, stores, histories) ==
    /\ connectors \in configs
    /\ forwarded_problems \in stores
    /\ forward_history \in histories
    /\ now = 1
    /\ pc = "poll"
    /\ cycle = 0
    /\ response = << >>
    /\ i = 0
    /\ actions = << >>
    /\ problems_to_forward = << >>
    /\ new_problems = 0
    /\ status_changes = 0
    /\ skipped = 0
    /\ forward_tasks = << >>
    /\ poll_result = "none"
    /\ cleared = [ count |-> 0, cycle |-> 0, at |-> "none", runs |-> 0 ]
    /\ new_count = [ id \in ProblemIds |->
                       IF is_some(get_problem(forwarded_problems, id)) THEN 1 ELSE 0 ]
    /\ last_seen = SeenIn(forwarded_problems)
    /\ first_new = [ id \in ProblemIds |->
                       IF is_some(get_problem(forwarded_problems, id))
                       THEN [ status |-> get_problem(forwarded_problems, id)[1].status,
                              cycle |-> 0 ]
                       ELSE [ status |-> "none", cycle |-> 0 ] ]
    /\ db_call = NoCall
    /\ last_fanout = [ cycle |-> 0, deliveries |-> {} ]
    /\ shutdown_handle = "pending"
    /\ at_signal = {}
    /\ starts = 1
    /\ interrupted = NoneInterrupted
    /\ tests = << >>
    /\ fetched = NoFetch
    /\ checking = NotChecking

\* over a database file whose forward_history table is empty
InitWith(configs, stores) == InitOver(configs, stores, {EmptyBag})

(***************************************************************************)
(* poll_and_forward returns: its locals go out of scope.                   *)
(***************************************************************************)
Return(result) ==
    /\ pc' = AfterPoll(result)
    /\ poll_result' = result
    /\ response' = << >>
    /\ i' = 0
    /\ actions' = << >>
    /\ problems_to_forward' = << >>
    /\ new_problems' = 0
    /\ status_changes' = 0
    /\ skipped' = 0

(***************************************************************************)
(* poll_and_forward, up to the classification loop: the fetch.             *)
(***************************************************************************)
Poll(pages) ==
    /\ pc = "poll"
    /\ cycle' = cycle + 1
    /\ IF fetch_problems(pages).ok
       THEN /\ response' = fetch_problems(pages).problems
            /\ pc' = "check"
            /\ poll_result' = "running"
            /\ i' = 0
            /\ actions' = << >>
            /\ problems_to_forward' = << >>
            /\ new_problems' = 0
            /\ status_changes' = 0
            /\ skipped' = 0
       ELSE Return("Err")
    /\ UNCHANGED << shutdown_handle, at_signal, starts, interrupted, tests,
                    fetched, checking, connectors, forwarded_problems, forward_history, now,
                    forward_tasks, cleared, new_count, last_seen, first_new, last_fanout, db_call >>

(***************************************************************************)
(* check_problem, first await: self.database.get_problem(..).await. The    *)
(* SELECT reads the table as it is at this step.                           *)
(***************************************************************************)
Lookup(db_error) ==
    /\ pc = "check"
    /\ ~ClassificationDone
    /\ checking.stage = "idle"
    /\ db_error \in {"none", "get_problem"}
    /\ checking' =
          [ stage |-> "get_problem",
            db_error |-> db_error,
            db_problem |-> IF db_error = "get_problem"
                           THEN None
                           ELSE get_problem(forwarded_problems,
                                            response[i + 1].problem_id),
            action |-> "none" ]
    /\ UNCHANGED << shutdown_handle, at_signal, starts, interrupted, tests,
                    fetched, connectors, forwarded_problems, forward_history, now,
                    pc, cycle, response, i, actions, problems_to_forward,
                    new_problems, status_changes, skipped, forward_tasks,
                    poll_result, cleared, new_count, last_seen, first_new, db_call,
                    last_fanout >>

\* what check_problem does after get_problem has returned, on the table as
\* it is now
Checked(db_error) ==
    check_problem(forwarded_problems, checking.db_problem, response[i + 1],
                  db_error, now)

(***************************************************************************)
(* check_problem, second await: insert_problem(..).await in the None arm,  *)
(* update_problem_status(..).await in the arm of a differing status. The   *)
(* statement runs on the table as it is at this step.                      *)
(***************************************************************************)
Write(db_error) ==
    /\ pc = "check"
    /\ checking.stage = "get_problem"
    /\ checking.db_error = "none"
    /\ db_error \in {"none", "write"}
    /\ Checked(db_error).action # "Skipped"
    /\ forwarded_problems' = Checked(db_error).db
    /\ checking' = [ checking EXCEPT !.stage = "write",
                                     !.action = Checked(db_error).action ]
    /\ new_count' =
          IF Checked(db_error).action = "NewProblem"
          THEN [ new_count EXCEPT ![response[i + 1].problem_id] = @ + 1 ]
          ELSE new_count
    /\ first_new' =
          IF Checked(db_error).action = "NewProblem"
          THEN [ first_new EXCEPT ![response[i + 1].problem_id] =
                    [ status |-> to_string(response[i + 1].status), cycle |-> cycle ] ]
          ELSE first_new
    /\ last_seen' =
          IF IsErr(Checked(db_error).action)
          THEN last_seen
          ELSE [ last_seen EXCEPT ![response[i + 1].problem_id] =
                                     to_string(response[i + 1].status) ]
    /\ UNCHANGED << shutdown_handle, at_signal, starts, interrupted, tests,
                    fetched, connectors, forward_history, now,
                    pc, cycle, response, i, actions, problems_to_forward,
                    new_problems, status_changes, skipped, forward_tasks,
                    poll_result, cleared, db_call, last_fanout >>

\* what the check_problem call in progress returns
Returned ==
    IF checking.stage = "write"
    THEN checking.action
    ELSE Checked(checking.db_error).action

\* check_problem has no await left: get_problem failed or found the status
\* unchanged, or the write has returned
ReadyToReturn ==
    IF checking.stage = "write"
    THEN TRUE
    ELSE IF checking.stage = "get_problem"
    THEN Returned \in {"Skipped", "Err(get_problem)"}
    ELSE FALSE

(***************************************************************************)
(* A classification loop that propagates the store error of a record with  *)
(* "?": poll_and_forward returns Err at the first failing record.          *)
(***************************************************************************)
CheckOrReturn ==
    /\ pc = "check"
    /\ ReadyToReturn
    /\ LET problem == response[i + 1]
       IN  IF IsErr(Returned)
           THEN Return("Err")
           ELSE /\ actions' = Append(actions, Returned)
                /\ problems_to_forward' =
                      IF Returned = "Skipped"
                      THEN problems_to_forward
                      ELSE Append(problems_to_forward, problem)
                /\ i' = i + 1
                /\ UNCHANGED << pc, response, new_problems, status_changes,
                                skipped, poll_result >>
    /\ checking' = NotChecking
    /\ UNCHANGED << shutdown_handle, at_signal, starts, interrupted, tests,
                    fetched, connectors, forward_history, now, cycle,
                    forward_tasks, cleared, last_fanout, db_call,
                    forwarded_problems, new_count, last_seen, first_new >>

(***************************************************************************)
(* A classification that reads the delivery history back: an unchanged     *)
(* record with no successful delivery on record is forwarded again.        *)
(***************************************************************************)
CheckRedeliver ==
    /\ pc = "check"
    /\ ReadyToReturn
    /\ LET problem == response[i + 1]
       IN  /\ actions' = Append(actions, Returned)
           /\ new_problems' = new_problems + (IF Returned = "NewProblem" THEN 1 ELSE 0)
           /\ status_changes' = status_changes + (IF Returned = "StatusChange" THEN 1 ELSE 0)
           /\ skipped' = skipped + (IF Returned = "Skipped" THEN 1 ELSE 0)
           /\ problems_to_forward' =
                 IF Returned \in {"NewProblem", "StatusChange"}
                 THEN Append(problems_to_forward, problem)
                 ELSE IF Returned = "Skipped"
                         /\ \A row \in BagToSet(forward_history) :
                               row.problem_id = problem.problem_id
                                  => row.status # "success"
                 THEN Append(problems_to_forward, problem)
                 ELSE problems_to_forward
    /\ i' = i + 1
    /\ checking' = NotChecking
    /\ UNCHANGED << shutdown_handle, at_signal, starts, interrupted, tests,
                    fetched, connectors, forward_history, now, pc, cycle, response,
                    forward_tasks, poll_result, cleared, last_fanout, db_call,
                    forwarded_problems, new_count, last_seen, first_new >>

(***************************************************************************)
(* A classification loop that forwards a record whose check_problem        *)
(* returned Err as well.                                                   *)
(***************************************************************************)
CheckForwardOnErr ==
    /\ pc = "check"
    /\ ReadyToReturn
    /\ LET problem == response[i + 1]
       IN  /\ actions' = Append(actions, Returned)
           /\ new_problems' = new_problems + (IF Returned = "NewProblem" THEN 1 ELSE 0)
           /\ status_changes' = status_changes + (IF Returned = "StatusChange" THEN 1 ELSE 0)
           /\ skipped' = skipped + (IF Returned = "Skipped" THEN 1 ELSE 0)
           /\ problems_to_forward' =
                 IF Returned = "Skipped"
                 THEN problems_to_forward
                 ELSE Append(problems_to_forward, problem)
    /\ i' = i + 1
    /\ checking' = NotChecking
    /\ UNCHANGED << shutdown_handle, at_signal, starts, interrupted, tests,
                    fetched, connectors, forward_history, now, pc, cycle, response,
                    forward_tasks, poll_result, cleared, last_fanout, db_call,
                    forwarded_problems, new_count, last_seen, first_new >>

(***************************************************************************)
(* check_problem returns and the loop of poll_and_forward matches on what  *)
(* it returned: one turn of the loop ends.                                 *)
(***************************************************************************)
Check ==
    /\ pc = "check"
    /\ ReadyToReturn
    /\ LET problem == response[i + 1]
       IN  /\ actions' = Append(actions, Returned)
           /\ new_problems' = new_problems + (IF Returned = "NewProblem" THEN 1 ELSE 0)
           /\ status_changes' = status_changes + (IF Returned = "StatusChange" THEN 1 ELSE 0)
           /\ skipped' = skipped + (IF Returned = "Skipped" THEN 1 ELSE 0)
           /\ problems_to_forward' =
                 IF Returned \in {"NewProblem", "StatusChange"}
                 THEN Append(problems_to_forward, problem)
                 ELSE problems_to_forward
    /\ i' = i + 1
    /\ checking' = NotChecking
    /\ UNCHANGED << shutdown_handle, at_signal, starts, interrupted, tests,
                    fetched, connectors, forward_history, now, pc, cycle, response,
                    forward_tasks, poll_result, cleared, last_fanout, db_call,
                    forwarded_problems, new_count, last_seen, first_new >>

(***************************************************************************)
(* After the loop: forward_collected_problems spawns the tasks, or the     *)
(* cycle ends when nothing needs forwarding.                               *)
(***************************************************************************)
Forward ==
    /\ pc = "check"
    /\ ClassificationDone
    /\ IF problems_to_forward = << >>
       THEN /\ Return("Ok")
            /\ UNCHANGED forward_tasks
       ELSE /\ forward_tasks' =
                 forward_tasks \o SpawnTasks(connectors, problems_to_forward, cycle)
            /\ pc' = "join"
            /\ UNCHANGED << response, i, actions, problems_to_forward, new_problems,
                            status_changes, skipped, poll_result >>
    /\ UNCHANGED << shutdown_handle, at_signal, starts, interrupted, tests,
                    fetched, checking, connectors, forwarded_problems, forward_history, now, cycle,
                    cleared, new_count, last_seen, first_new, last_fanout, db_call >>

(***************************************************************************)
(* A fan-out that gives up as a whole when one delivery has failed for     *)
(* good: the tasks still pending are cancelled.                            *)
(***************************************************************************)
AttemptOrCancelAll(t, outcome) ==
    /\ t \in 1..Len(forward_tasks)
    /\ forward_tasks[t].result = "pending"
    /\ LET after == retry_with_backoff(forward_tasks[t],
                                       max_attempts(connectors[forward_tasks[t].connector]),
                                       outcome)
       IN  forward_tasks' =
              [ u \in 1..Len(forward_tasks) |->
                  IF u = t
                  THEN after
                  ELSE IF after.result = "failed" /\ forward_tasks[u].result = "pending"
                  THEN [ forward_tasks[u] EXCEPT !.result = "failed",
                                                 !.error_message = Some("cancelled") ]
                  ELSE forward_tasks[u] ]
    /\ UNCHANGED << shutdown_handle, at_signal, starts, interrupted, tests,
                    fetched, checking, connectors, forwarded_problems, forward_history, now, pc, cycle,
                    response, i, actions, problems_to_forward, new_problems,
                    status_changes, skipped, poll_result, cleared, new_count,
                    last_seen, first_new, last_fanout, db_call >>

(***************************************************************************)
(* A task sends one request (one attempt of retry_with_backoff).           *)
(***************************************************************************)
Attempt(t, outcome) ==
    /\ t \in 1..Len(forward_tasks)
    /\ forward_tasks[t].result = "pending"
    /\ forward_tasks' =
         [ forward_tasks EXCEPT ![t] =
             retry_with_backoff(@, max_attempts(connectors[@.connector]), outcome) ]
    /\ UNCHANGED << shutdown_handle, at_signal, starts, interrupted, tests,
                    fetched, checking, connectors, forwarded_problems, forward_history, now, pc, cycle,
                    response, i, actions, problems_to_forward, new_problems,
                    status_changes, skipped, poll_result, cleared, new_count,
                    last_seen, first_new, last_fanout, db_call >>

(***************************************************************************)
(* A task that writes the history row of its first problem only.           *)
(***************************************************************************)
RecordFirstOnly(t, written) ==
    /\ t \in 1..Len(forward_tasks)
    /\ forward_tasks[t].result # "pending"
    /\ ~forward_tasks[t].done
    /\ forward_history' =
          IF written
          THEN insert_forward_history(forward_history,
                  HistoryOf(forward_tasks[t], connectors,
                            forward_tasks[t].problems[1], now))
          ELSE forward_history
    /\ forward_tasks' =
          [ forward_tasks EXCEPT ![t] = [ @ EXCEPT !.recorded = 1, !.done = TRUE ] ]
    /\ UNCHANGED << shutdown_handle, at_signal, starts, interrupted, tests,
                    fetched, checking, connectors, forwarded_problems, now, pc, cycle,
                    response, i, actions, problems_to_forward, new_problems,
                    status_changes, skipped, poll_result, cleared, new_count,
                    last_seen, first_new, last_fanout, db_call >>

(***************************************************************************)
(* A task that propagates the error of insert_forward_history with "?":    *)
(* the task ends at the first failed insert.                               *)
(***************************************************************************)
RecordOrAbort(t, written) ==
    /\ t \in 1..Len(forward_tasks)
    /\ forward_tasks[t].result # "pending"
    /\ ~forward_tasks[t].done
    /\ forward_history' =
          IF written
          THEN insert_forward_history(forward_history,
                  HistoryOf(forward_tasks[t], connectors,
                            forward_tasks[t].problems[forward_tasks[t].recorded + 1],
                            now))
          ELSE forward_history
    /\ forward_tasks' =
          [ forward_tasks EXCEPT ![t] =
              [ @ EXCEPT !.recorded = @ + 1,
                         !.done = IF written
                                  THEN forward_tasks[t].recorded + 1
                                          = Len(forward_tasks[t].problems)
                                  ELSE TRUE ] ]
    /\ UNCHANGED << shutdown_handle, at_signal, starts, interrupted, tests,
                    fetched, checking, connectors, forwarded_problems, now, pc, cycle,
                    response, i, actions, problems_to_forward, new_problems,
                    status_changes, skipped, poll_result, cleared, new_count,
                    last_seen, first_new, last_fanout, db_call >>

(***************************************************************************)
(* A task that also counts the delivery in the tracked row of the problem  *)
(* when it writes the history row.                                         *)
(***************************************************************************)
RecordAndCount(t, written) ==
    /\ t \in 1..Len(forward_tasks)
    /\ forward_tasks[t].result # "pending"
    /\ ~forward_tasks[t].done
    /\ LET task == forward_tasks[t]
           problem == task.problems[task.recorded + 1]
       IN  /\ forward_history' =
                 IF written
                 THEN insert_forward_history(forward_history,
                                             HistoryOf(task, connectors, problem, now))
                 ELSE forward_history
           /\ forward_tasks' =
                 [ forward_tasks EXCEPT ![t] =
                     [ @ EXCEPT !.recorded = task.recorded + 1,
                                !.done = (task.recorded + 1 = Len(task.problems)) ] ]
    /\ forwarded_problems' =
          [ k \in 1..Len(forwarded_problems) |->
              IF forwarded_problems[k].problem_id =
                    forward_tasks[t].problems[forward_tasks[t].recorded + 1].problem_id
              THEN [ forwarded_problems[k] EXCEPT !.forward_count = @ + 1 ]
              ELSE forwarded_problems[k] ]
    /\ UNCHANGED << shutdown_handle, at_signal, starts, interrupted, tests,
                    fetched, checking, connectors, now, pc, cycle,
                    response, i, actions, problems_to_forward, new_problems,
                    status_changes, skipped, poll_result, cleared, new_count,
                    last_seen, first_new, last_fanout, db_call >>

(***************************************************************************)
(* A task with its final outcome writes the history row of its next        *)
(* problem; written = FALSE when insert_forward_history returns Err, which *)
(* "let _ =" discards.                                                     *)
(***************************************************************************)
Record(t, written) ==
    /\ t \in 1..Len(forward_tasks)
    /\ forward_tasks[t].result # "pending"
    /\ ~forward_tasks[t].done
    /\ LET task == forward_tasks[t]
           problem == task.problems[task.recorded + 1]
       IN  /\ forward_history' =
                 IF written
                 THEN insert_forward_history(forward_history,
                                             HistoryOf(task, connectors, problem, now))
                 ELSE forward_history
           /\ forward_tasks' =
                 [ forward_tasks EXCEPT ![t] =
                     [ @ EXCEPT !.recorded = task.recorded + 1,
                                !.done = (task.recorded + 1 = Len(task.problems)) ] ]
    /\ UNCHANGED << shutdown_handle, at_signal, starts, interrupted, tests,
                    fetched, checking, connectors, forwarded_problems, now, pc, cycle,
                    response, i, actions, problems_to_forward, new_problems,
                    status_changes, skipped, poll_result, cleared, new_count,
                    last_seen, first_new, last_fanout, db_call >>

\* each (connector, problem) of the tasks with the task's final result
Deliveries(tasks, conns) ==
    UNION { { [ connector |-> conns[tasks[k].connector].name,
                problem |-> tasks[k].problems[j],
                result |-> tasks[k].result ] : j \in 1..Len(tasks[k].problems) } :
            k \in 1..Len(tasks) }

(***************************************************************************)
(* A join that undoes the tracking of the problems no connector accepted.  *)
(***************************************************************************)
JoinRollback ==
    /\ pc = "join"
    /\ AllTasksComplete(forward_tasks)
    /\ forward_tasks' = << >>
    /\ last_fanout' = [ cycle |-> cycle,
                        deliveries |-> Deliveries(forward_tasks, connectors) ]
    /\ forwarded_problems' =
          SelectSeq(forwarded_problems,
                    LAMBDA row :
                       row.problem_id \notin
                          ({ d.problem.problem_id :
                                d \in Deliveries(forward_tasks, connectors) }
                           \ { d.problem.problem_id :
                                 d \in { e \in Deliveries(forward_tasks, connectors) :
                                           e.result = "success" } }))
    /\ Return("Ok")
    /\ UNCHANGED << shutdown_handle, at_signal, starts, interrupted, tests,
                    fetched, checking, connectors, forward_history, now, cycle,
                    cleared, new_count, last_seen, first_new, db_call >>

(***************************************************************************)
(* A spawned delivery task panics: the runtime ends the task where it is   *)
(* and its JoinHandle resolves to Err(JoinError).                          *)
(***************************************************************************)
Panic(t) ==
    /\ t \in 1..Len(forward_tasks)
    /\ ~forward_tasks[t].done
    /\ forward_tasks' =
          [ forward_tasks EXCEPT ![t] = [ @ EXCEPT !.result = "panicked", !.done = TRUE ] ]
    /\ UNCHANGED << shutdown_handle, at_signal, starts, interrupted, tests,
                    fetched, checking, connectors, forwarded_problems, forward_history, now, pc, cycle,
                    response, i, actions, problems_to_forward, new_problems,
                    status_changes, skipped, poll_result, cleared, new_count,
                    last_seen, first_new, last_fanout, db_call >>

(***************************************************************************)
(* A wait that propagates what the tasks ended with: poll_and_forward      *)
(* returns Err when a task panicked or its delivery failed.                *)
(***************************************************************************)
JoinOrErr ==
    /\ pc = "join"
    /\ AllTasksComplete(forward_tasks)
    /\ forward_tasks' = SelectSeq(forward_tasks, LAMBDA task : ~task.done)
    /\ last_fanout' = [ cycle |-> cycle,
                        deliveries |-> Deliveries(forward_tasks, connectors) ]
    /\ IF \A t \in 1..Len(forward_tasks) : forward_tasks[t].result = "success"
       THEN Return("Ok")
       ELSE Return("Err")
    /\ UNCHANGED << shutdown_handle, at_signal, starts, interrupted, tests,
                    fetched, checking, connectors, forwarded_problems, forward_history, now, cycle,
                    cleared, new_count, last_seen, first_new, db_call >>

(***************************************************************************)
(* forward_collected_problems has awaited every JoinHandle; the finished   *)
(* tasks are gone from the runtime and poll_and_forward returns Ok.        *)
(***************************************************************************)
Join ==
    /\ pc = "join"
    /\ AllTasksComplete(forward_tasks)
    /\ forward_tasks' = SelectSeq(forward_tasks, LAMBDA task : ~task.done)
    /\ last_fanout' = [ cycle |-> cycle,
                        deliveries |-> Deliveries(forward_tasks, connectors) ]
    /\ Return("Ok")
    /\ UNCHANGED << shutdown_handle, at_signal, starts, interrupted, tests,
                    fetched, checking, connectors, forwarded_problems, forward_history, now, cycle,
                    cleared, new_count, last_seen, first_new, db_call >>

(***************************************************************************)
(* ForwardingEngine::run: sleep(interval), then the next cycle.            *)
(***************************************************************************)
Sleep(cycles) ==
    /\ pc = "sleep"
    /\ cycle < cycles
    /\ pc' = "poll"
    /\ now' = now + 1
    /\ UNCHANGED << shutdown_handle, at_signal, starts, interrupted, tests,
                    fetched, checking, connectors, forwarded_problems, forward_history, cycle,
                    response, i, actions, problems_to_forward, new_problems,
                    status_changes, skipped, forward_tasks, poll_result, cleared,
                    new_count, last_seen, first_new, db_call, last_fanout >>

(***************************************************************************)
(* The clear-cache command: another process that opens the same database   *)
(* file and runs clear_all_problems, wherever the engine is.               *)
(***************************************************************************)
ClearCache ==
    /\ cleared.runs < MaxClears
    /\ forwarded_problems' = clear_all_problems(forwarded_problems).db
    /\ cleared' = [ count |-> clear_all_problems(forwarded_problems).rows_affected,
                    cycle |-> cycle,
                    at |-> pc,
                    runs |-> cleared.runs + 1 ]
    /\ new_count' = [ id \in ProblemIds |-> 0 ]
    /\ last_seen' = NoneSeen
    /\ first_new' = [ id \in ProblemIds |-> [ status |-> "none", cycle |-> 0 ] ]
    /\ UNCHANGED << shutdown_handle, at_signal, starts, interrupted, tests,
                    fetched, checking, connectors, forward_history, now, pc, cycle,
                    response, i, actions, problems_to_forward, new_problems,
                    status_changes, skipped, forward_tasks, poll_result,
                    last_fanout, db_call >>

(***************************************************************************)
(* The engine in an environment: what the remote API answers, which store  *)
(* calls fail, what the connectors answer, whether history inserts succeed *)
(* and how many cycles are run.                                            *)
(***************************************************************************)
Engine(inputs, errors, outcomes, writes, cycles) ==
    \/ \E pages \in inputs : Poll(pages)
    \/ \E db_error \in errors \cap {"none", "get_problem"} : Lookup(db_error)
    \/ \E db_error \in errors \cap {"none", "write"} : Write(db_error)
    \/ Check
    \/ Forward
    \/ \E t \in 1..Len(forward_tasks), outcome \in outcomes : Attempt(t, outcome)
    \/ \E t \in 1..Len(forward_tasks), written \in writes : Record(t, written)
    \/ Join
    \/ Sleep(cycles)

(***************************************************************************)
(* Spec: one batch connector, over a new or an existing database; every    *)
(* fetch result, store error, connector answer and history-insert failure, *)
(* and clear-cache at any point.                                           *)
(***************************************************************************)
Init == InitWith(ConnectorConfigs, PersistedStores)

Next ==
    \/ Engine(FetchInputs, DbErrors, HttpOutcomes, BOOLEAN, MaxCycles)
    \/ ClearCache

Spec == Init /\ [][Next]_vars

(***************************************************************************)
(* SpecFanout: a batch connector and a retrying individual connector over  *)
(* a new database; single-page fetches of distinct problems, a working     *)
(* store, connectors answering 200 or 500.                                 *)
(***************************************************************************)
FanoutCycles == 2

AscendingIds(list) ==
    \A a, b \in 1..Len(list) :
        a < b => (list[a].problem_id = "P1" /\ list[b].problem_id = "P2")

FanoutInputs ==
    { pages \in FetchInputs : Len(pages) = 1 /\ AscendingIds(pages[1].problems) }

FanoutOutcomes ==
    { outcome \in HttpOutcomes : outcome.kind = "response" }

InitFanout == InitWith(FanoutConfigs, NewStores)

NextFanout ==
    \/ Engine(FanoutInputs, {"none"}, FanoutOutcomes, {TRUE}, FanoutCycles)
    \/ ClearCache

SpecFanout == InitFanout /\ [][NextFanout]_vars

(***************************************************************************)
(* SpecScenario: the end-to-end scenario. Both connectors over a new       *)
(* database, a working store, no clear-cache; cycle k fetches Scenario[k]. *)
(***************************************************************************)
Scenario ==
    << << [ problem_id |-> "P1", status |-> "Open" ] >>,
       << [ problem_id |-> "P1", status |-> "Open" ] >>,
       << [ problem_id |-> "P1", status |-> "Resolved" ] >> >>

ScenarioInputs ==
    IF cycle < Len(Scenario)
    THEN { PagesOf(Scenario[cycle + 1], 1, << >>) }
    ELSE {}

NextScenario ==
    \/ \E pages \in ScenarioInputs : Poll(pages)
    \/ Lookup("none")
    \/ Write("none")
    \/ Check
    \/ Forward
    \/ \E t \in 1..Len(forward_tasks), outcome \in HttpOutcomes : Attempt(t, outcome)
    \/ \E t \in 1..Len(forward_tasks), written \in BOOLEAN : Record(t, written)
    \/ Join
    \/ Sleep(Len(Scenario))

SpecScenario == InitFanout /\ [][NextScenario]_vars

(***************************************************************************)
(* SpecRetry: one cycle of one connector, batch or individual, configured  *)
(* with no retry_attempts or with 0..MaxRetryAttempts, over a new          *)
(* database; every connector answer.                                       *)
(***************************************************************************)
MaxRetryAttempts == 3

RetryConfigs ==
    { << [ name |-> "hook", batch_mode |-> batch, retry_attempts |-> attempts ] >> :
        batch \in BOOLEAN,
        attempts \in {None} \cup { Some(n) : n \in 0..MaxRetryAttempts } }

InitRetry == InitWith(RetryConfigs, NewStores)

NextRetry ==
    \/ \E pages \in FanoutInputs : Poll(pages)
    \/ Lookup("none")
    \/ Write("none")
    \/ Check
    \/ Forward
    \/ \E t \in 1..Len(forward_tasks), outcome \in HttpOutcomes : Attempt(t, outcome)
    \/ \E t \in 1..Len(forward_tasks) : Record(t, TRUE)
    \/ Join

SpecRetry == InitRetry /\ [][NextRetry]_vars

(***************************************************************************)
(* SpecStore: a caller of the Database API makes up to MaxStoreCalls       *)
(* insert_problem, update_problem_status and update_last_forwarded calls,  *)
(* with any problem id and status, on a new or an existing database.       *)
(***************************************************************************)
MaxStoreCalls == 3

StoredStatus == { to_string(status) : status \in ProblemStatus }

InsertProblem(problem_id, status) ==
    /\ db_call.seq < MaxStoreCalls
    /\ LET called == insert_problem_call(forwarded_problems,
                                         ForwardedProblemNew(problem_id, status, now))
       IN  /\ forwarded_problems' = called.db
           /\ db_call' = [ seq |-> db_call.seq + 1, op |-> "insert_problem",
                           problem_id |-> problem_id, status |-> status,
                           result |-> called.result ]
    /\ UNCHANGED << shutdown_handle, at_signal, starts, interrupted, tests,
                    fetched, checking, connectors, forward_history, now, pc, cycle, response, i,
                    actions, problems_to_forward, new_problems, status_changes,
                    skipped, forward_tasks, poll_result, cleared, new_count,
                    last_seen, first_new, last_fanout >>

UpdateProblemStatus(problem_id, new_status) ==
    /\ db_call.seq < MaxStoreCalls
    /\ LET called == update_problem_status_call(forwarded_problems, problem_id,
                                                new_status, now)
       IN  /\ forwarded_problems' = called.db
           /\ db_call' = [ seq |-> db_call.seq + 1, op |-> "update_problem_status",
                           problem_id |-> problem_id, status |-> new_status,
                           result |-> called.result ]
    /\ UNCHANGED << shutdown_handle, at_signal, starts, interrupted, tests,
                    fetched, checking, connectors, forward_history, now, pc, cycle, response, i,
                    actions, problems_to_forward, new_problems, status_changes,
                    skipped, forward_tasks, poll_result, cleared, new_count,
                    last_seen, first_new, last_fanout >>

UpdateLastForwarded(problem_id) ==
    /\ db_call.seq < MaxStoreCalls
    /\ LET called == update_last_forwarded_call(forwarded_problems, problem_id, now)
       IN  /\ forwarded_problems' = called.db
           /\ db_call' = [ seq |-> db_call.seq + 1, op |-> "update_last_forwarded",
                           problem_id |-> problem_id, status |-> "none",
                           result |-> called.result ]
    /\ UNCHANGED << shutdown_handle, at_signal, starts, interrupted, tests,
                    fetched, checking, connectors, forward_history, now, pc, cycle,
                    response, i, actions, problems_to_forward, new_problems,
                    status_changes, skipped, forward_tasks, poll_result, cleared,
                    new_count, last_seen, first_new, last_fanout >>

NextStore ==
    \/ \E problem_id \in ProblemIds, status \in StoredStatus :
          InsertProblem(problem_id, status)
    \/ \E problem_id \in ProblemIds, status \in StoredStatus :
          UpdateProblemStatus(problem_id, status)
    \/ \E problem_id \in ProblemIds : UpdateLastForwarded(problem_id)

SpecStore == Init /\ [][NextStore]_vars

(***************************************************************************)
(* The run command and its shutdown: main.rs spawns the shutdown handler   *)
(* and the engine as two tasks of the runtime, awaits the handler only,    *)
(* and returns; returning from main drops the runtime, which drops every   *)
(* task it still holds at the await the task is suspended in.              *)
(***************************************************************************)
\* run commands started over one database file
MaxStarts == 2

\* a delivery task whose first request is out and not answered yet
InFlight(task) == task.result = "pending" /\ task.attempt = 0

\* the records on the forward list for which no task has had the answer to
\* any request
Undelivered(to_forward, tasks) ==
    { to_forward[j] : j \in { k \in 1..Len(to_forward) :
         \A t \in 1..Len(tasks) :
            (\E n \in 1..Len(tasks[t].problems) : tasks[t].problems[n] = to_forward[k])
               => tasks[t].attempt = 0 } }

\* the record of the check_problem call in progress whose insert or update
\* is in the table while the call has not returned
Unreturned ==
    IF checking.stage = "write"
    THEN IF IsErr(checking.action) THEN {} ELSE { response[i + 1] }
    ELSE {}

\* the records tracked by the running cycle that no connector has answered
\* a request for
LeftBehind == Undelivered(problems_to_forward, forward_tasks) \cup Unreturned

\* utils::setup_shutdown_handler: its future resolves when the stop signal
\* of the process arrives; the engine task is not told
ShutdownSignal ==
    /\ pc # "exited"
    /\ shutdown_handle = "pending"
    /\ shutdown_handle' = "ready"
    /\ at_signal' = { forward_tasks[t] : t \in { u \in 1..Len(forward_tasks) :
                                                   InFlight(forward_tasks[u]) } }
    /\ UNCHANGED << starts, interrupted, tests,
                    fetched, checking, connectors, forwarded_problems, forward_history, now, pc, cycle,
                    response, i, actions, problems_to_forward, new_problems,
                    status_changes, skipped, forward_tasks, poll_result, cleared,
                    new_count, last_seen, first_new, db_call, last_fanout >>

\* an exit that untracks the records it leaves without a delivery
ExitUntracked ==
    /\ shutdown_handle = "ready"
    /\ pc # "exited"
    /\ pc' = "exited"
    /\ forward_tasks' = << >>
    /\ forwarded_problems' =
          SelectSeq(forwarded_problems,
                    LAMBDA row :
                       row.problem_id \notin
                          { problem.problem_id : problem \in LeftBehind })
    /\ interrupted' =
          IF pc \in {"check", "join"} /\ LeftBehind # {}
          THEN [ problems |-> LeftBehind, cycle |-> cycle ]
          ELSE interrupted
    /\ checking' = NotChecking
    /\ poll_result' = IF pc \in {"check", "join"} THEN "dropped" ELSE poll_result
    /\ response' = << >>
    /\ i' = 0
    /\ actions' = << >>
    /\ problems_to_forward' = << >>
    /\ new_problems' = 0
    /\ status_changes' = 0
    /\ skipped' = 0
    /\ UNCHANGED << shutdown_handle, at_signal, starts, tests,
                    fetched, connectors, forward_history, now, cycle,
                    cleared, new_count, last_seen, first_new, db_call, last_fanout >>

\* main.rs: shutdown_handle.await returns, "Shutdown complete", run and main
\* return: the engine task and the delivery tasks are dropped where they are
Exit ==
    /\ shutdown_handle = "ready"
    /\ pc # "exited"
    /\ pc' = "exited"
    /\ forward_tasks' = << >>
    /\ interrupted' =
          IF pc \in {"check", "join"} /\ LeftBehind # {}
          THEN [ problems |-> LeftBehind, cycle |-> cycle ]
          ELSE interrupted
    /\ checking' = NotChecking
    /\ poll_result' = IF pc \in {"check", "join"} THEN "dropped" ELSE poll_result
    /\ response' = << >>
    /\ i' = 0
    /\ actions' = << >>
    /\ problems_to_forward' = << >>
    /\ new_problems' = 0
    /\ status_changes' = 0
    /\ skipped' = 0
    /\ UNCHANGED << shutdown_handle, at_signal, starts, tests,
                    fetched, connectors, forwarded_problems, forward_history, now, cycle,
                    cleared, new_count, last_seen, first_new, db_call, last_fanout >>

\* main.rs, Commands::Run once more over the same configuration and
\* database file: ForwardingEngine::new, a new shutdown handler, engine.run
Start ==
    /\ pc = "exited"
    /\ starts < MaxStarts
    /\ starts' = starts + 1
    /\ shutdown_handle' = "pending"
    /\ at_signal' = {}
    /\ pc' = "poll"
    /\ poll_result' = "none"
    /\ UNCHANGED << interrupted, tests,
                    fetched, checking, connectors, forwarded_problems, forward_history, now, cycle,
                    response, i, actions, problems_to_forward, new_problems,
                    status_changes, skipped, forward_tasks, cleared,
                    new_count, last_seen, first_new, db_call, last_fanout >>

(***************************************************************************)
(* SpecLifecycle: the run command over a new database with one batch       *)
(* connector, stopped by the shutdown signal at any point and started      *)
(* again; single-page fetches of P1, a working store, clear-cache at any   *)
(* point.                                                                  *)
(***************************************************************************)
LifecycleCycles == 3

LifecycleInputs ==
    { pages \in FanoutInputs :
        \A k \in 1..Len(pages[1].problems) : pages[1].problems[k].problem_id = "P1" }

NextLifecycle ==
    \/ \E pages \in LifecycleInputs : Poll(pages)
    \/ Lookup("none")
    \/ Write("none")
    \/ Check
    \/ Forward
    \/ \E t \in 1..Len(forward_tasks), outcome \in FanoutOutcomes : Attempt(t, outcome)
    \/ \E t \in 1..Len(forward_tasks) : Record(t, TRUE)
    \/ Join
    \/ Sleep(LifecycleCycles)
    \/ ClearCache
    \/ ShutdownSignal
    \/ Exit
    \/ Start

SpecLifecycle == InitWith(ConnectorConfigs, NewStores) /\ [][NextLifecycle]_vars

(***************************************************************************)
(* The test-connectors command: main.rs calls Connector::test on each      *)
(* configured connector in turn; test builds a dummy problem and hands it  *)
(* to forward_problem, whatever the connector's mode.                      *)
(***************************************************************************)
\* Connector::test: the dummy payload (the fields the model keeps)
test_problem == [ problem_id |-> "TEST-12345", status |-> "Open" ]

\* for connector in engine.connectors(): connector.test() is called on the
\* next connector once the call on the one before has returned
TestConnector ==
    /\ Len(tests) < Len(connectors)
    /\ IF tests = << >> THEN TRUE ELSE tests[Len(tests)].result # "pending"
    /\ tests' = Append(tests, NewTask(0, Len(tests) + 1, << test_problem >>))
    /\ UNCHANGED << shutdown_handle, at_signal, starts, interrupted,
                    fetched, checking, connectors, forwarded_problems, forward_history, now, pc, cycle,
                    response, i, actions, problems_to_forward, new_problems,
                    status_changes, skipped, forward_tasks, poll_result, cleared,
                    new_count, last_seen, first_new, db_call, last_fanout >>

\* a test that records its outcome in the delivery history
TestAttemptRecorded(outcome) ==
    /\ tests # << >>
    /\ tests[Len(tests)].result = "pending"
    /\ LET after == retry_with_backoff(tests[Len(tests)],
                       max_attempts(connectors[tests[Len(tests)].connector]), outcome)
       IN  /\ tests' = [ tests EXCEPT ![Len(tests)] = after ]
           /\ forward_history' =
                 IF after.result = "pending"
                 THEN forward_history
                 ELSE insert_forward_history(forward_history,
                         HistoryOf(after, connectors, test_problem, now))
    /\ UNCHANGED << shutdown_handle, at_signal, starts, interrupted,
                    fetched, checking, connectors, forwarded_problems, now, pc, cycle,
                    response, i, actions, problems_to_forward, new_problems,
                    status_changes, skipped, forward_tasks, poll_result, cleared,
                    new_count, last_seen, first_new, db_call, last_fanout >>

\* self.forward_problem(&test_problem).await?: one attempt of the retry
\* loop around send_request
TestAttempt(outcome) ==
    /\ tests # << >>
    /\ tests[Len(tests)].result = "pending"
    /\ tests' = [ tests EXCEPT ![Len(tests)] =
                    retry_with_backoff(@, max_attempts(connectors[@.connector]),
                                       outcome) ]
    /\ UNCHANGED << shutdown_handle, at_signal, starts, interrupted,
                    fetched, checking, connectors, forwarded_problems, forward_history, now, pc, cycle,
                    response, i, actions, problems_to_forward, new_problems,
                    status_changes, skipped, forward_tasks, poll_result, cleared,
                    new_count, last_seen, first_new, db_call, last_fanout >>

(***************************************************************************)
(* SpecTest: the test-connectors command run at any moment of one cycle of *)
(* the engine (single-page fetches of P1), over a new or an existing       *)
(* database, with one connector of any mode and retry_attempts or with a   *)
(* batch and an individual one.                                            *)
(***************************************************************************)
NextTest ==
    \/ \E pages \in LifecycleInputs : Poll(pages)
    \/ Lookup("none")
    \/ Write("none")
    \/ Check
    \/ Forward
    \/ \E t \in 1..Len(forward_tasks), outcome \in FanoutOutcomes : Attempt(t, outcome)
    \/ \E t \in 1..Len(forward_tasks) : Record(t, TRUE)
    \/ Join
    \/ TestConnector
    \/ \E outcome \in HttpOutcomes : TestAttempt(outcome)

SpecTest == InitWith(RetryConfigs \cup FanoutConfigs, PersistedStores) /\ [][NextTest]_vars

(***************************************************************************)
(* SpecGroups: one cycle over a new database with one to MaxConnectors     *)
(* connectors, each configured in batch or in individual mode.             *)
(***************************************************************************)
MaxConnectors == 3

ConnectorNames == << "c1", "c2", "c3", "c4" >>

GroupConfigs ==
    UNION { { [ c \in 1..n |->
                 [ name |-> ConnectorNames[c], batch_mode |-> modes[c],
                   retry_attempts |-> Some(1) ] ] :
              modes \in [1..n -> BOOLEAN] } : n \in 1..MaxConnectors }

InitGroups == InitWith(GroupConfigs, NewStores)

NextGroups ==
    \/ \E pages \in FanoutInputs : Poll(pages)
    \/ Lookup("none")
    \/ Write("none")
    \/ Check
    \/ Forward
    \/ \E t \in 1..Len(forward_tasks), outcome \in FanoutOutcomes : Attempt(t, outcome)
    \/ \E t \in 1..Len(forward_tasks) : Record(t, TRUE)
    \/ Join

SpecGroups == InitGroups /\ [][NextGroups]_vars

(***************************************************************************)
(* SpecHistory: the engine with one batch connector started over database  *)
(* files that differ in their forward_history table (left by earlier runs) *)
(* for the same forwarded_problems table; single-page fetches, a working   *)
(* store, clear-cache at any point.                                        *)
(***************************************************************************)
HistoryCycles == 2

\* forward_history tables of earlier runs: empty, a delivery of P1 that
\* succeeded, one that failed, both
PersistedHistories ==
    LET delivered == ForwardHistoryNew("P1", "siem", "success", Some(200), None, 0)
        refused == ForwardHistoryNew("P1", "siem", "failed", None,
                                     Some("HTTP error"), 0)
    IN  { EmptyBag, SetToBag({delivered}), SetToBag({refused}),
          SetToBag({delivered, refused}) }

InitHistory == InitOver(ConnectorConfigs, PersistedStores, PersistedHistories)

NextHistory ==
    \/ \E pages \in FanoutInputs : Poll(pages)
    \/ Lookup("none")
    \/ Write("none")
    \/ Check
    \/ Forward
    \/ \E t \in 1..Len(forward_tasks), outcome \in FanoutOutcomes : Attempt(t, outcome)
    \/ \E t \in 1..Len(forward_tasks) : Record(t, TRUE)
    \/ Join
    \/ Sleep(HistoryCycles)
    \/ ClearCache

SpecHistory == InitHistory /\ [][NextHistory]_vars

(***************************************************************************)
(* SpecStatus: one cycle of one connector, batch or individual, with no    *)
(* retry_attempts or 0..MaxRetryAttempts, that fetches P1; the connector   *)
(* answers with status codes on both sides of the 2xx range or the request *)
(* fails in transport.                                                     *)
(***************************************************************************)
StatusOutcomes ==
    { [ kind |-> "response", code |-> code ] : code \in {199, 200, 204, 299, 300, 404, 500} }
       \cup { [ kind |-> "transport", code |-> 0 ] }

NextStatus ==
    \/ \E pages \in LifecycleInputs : Poll(pages)
    \/ Lookup("none")
    \/ Write("none")
    \/ Check
    \/ Forward
    \/ \E t \in 1..Len(forward_tasks), outcome \in StatusOutcomes : Attempt(t, outcome)
    \/ \E t \in 1..Len(forward_tasks) : Record(t, TRUE)
    \/ Join

SpecStatus == InitRetry /\ [][NextStatus]_vars

(***************************************************************************)
(* SpecRetryFair: SpecRetry in which every request a task has sent is      *)
(* answered (with a response or an error), every history insert returns    *)
(* and the engine task is scheduled: weak fairness of each step.           *)
(***************************************************************************)
FairRetry ==
    /\ WF_vars(Lookup("none"))
    /\ WF_vars(Write("none"))
    /\ WF_vars(Check)
    /\ WF_vars(Forward)
    /\ WF_vars(Join)
    /\ \A t \in 1..MaxFetch :
          /\ WF_vars(\E outcome \in HttpOutcomes : Attempt(t, outcome))
          /\ WF_vars(Record(t, TRUE))

SpecRetryFair == InitRetry /\ [][NextRetry]_vars /\ FairRetry

(***************************************************************************)
(* SpecFetch: a caller of DynatraceClient::fetch_problems, against a       *)
(* remote API that holds up to MaxPages pages of at most one record each;  *)
(* any page may fail, any page may carry a nextPageKey or none, the last   *)
(* page the API holds carries none.                                        *)
(***************************************************************************)
ApiPages ==
    [ ok : BOOLEAN,
      problems : { << >> } \cup { << problem >> : problem \in Problem },
      next_page_key : BOOLEAN ]

PageScripts ==
    { pages \in UNION { [1..n -> ApiPages] : n \in 1..MaxPages } :
        ~pages[Len(pages)].next_page_key }

\* a direct call of fetch_problems
Fetch(pages) ==
    /\ fetched' = [ pages |-> pages, result |-> fetch_problems(pages) ]
    /\ UNCHANGED << shutdown_handle, at_signal, starts, interrupted, tests,
                    checking, connectors, forwarded_problems, forward_history, now, pc, cycle,
                    response, i, actions, problems_to_forward, new_problems,
                    status_changes, skipped, forward_tasks, poll_result, cleared,
                    new_count, last_seen, first_new, db_call, last_fanout >>

NextFetch == \E pages \in PageScripts : Fetch(pages)

SpecFetch == Init /\ [][NextFetch]_vars

(***************************************************************************)
(* SpecPanic: both connectors over a new database; fetches of P1 or of     *)
(* nothing that succeed or fail, every store error, connectors answering   *)
(* 200 or 500, history inserts that succeed or fail, tasks that panic.     *)
(***************************************************************************)
PanicInputs ==
    LifecycleInputs \cup { FailAt(pages, 1) : pages \in LifecycleInputs }

NextPanic ==
    \/ Engine(PanicInputs, DbErrors, FanoutOutcomes, BOOLEAN, FanoutCycles)
    \/ \E t \in 1..Len(forward_tasks) : Panic(t)

SpecPanic == InitFanout /\ [][NextPanic]_vars

(***************************************************************************)
(* SpecDup: the batch connector over a new or an existing database; the    *)
(* fetch returns up to MaxDup records, all of them of P1, so a problem id  *)
(* occurs several times in one result; every store error, and clear-cache  *)
(* at any point.                                                           *)
(***************************************************************************)
MaxDup == 3

DupInputs ==
    { PagesOf(list, 1, << >>) :
        list \in { l \in UNION { [1..n -> Problem] : n \in 0..MaxDup } :
                     \A k \in 1..Len(l) : l[k].problem_id = "P1" } }

NextDup ==
    \/ Engine(DupInputs, DbErrors, FanoutOutcomes, {TRUE}, FanoutCycles)
    \/ ClearCache

SpecDup == Init /\ [][NextDup]_vars

(***************************************************************************)
(* Properties                                                              *)
(***************************************************************************)
\* a turn of the classification loop, the record it classifies and what
\* get_problem finds for it
\* the steps of one check_problem call: get_problem returns, the insert or
\* update returns, the call returns to the loop
LookupStep == pc = "check" /\ checking.stage = "idle" /\ checking'.stage = "get_problem"

WriteStep == pc = "check" /\ checking.stage = "get_problem" /\ checking'.stage = "write"

CheckStep == pc = "check" /\ i' = i + 1

Current == response[i + 1]

\* the row get_problem returned to the call in progress
Stored == checking.db_problem

StoredAfter == get_problem(forwarded_problems', Current.problem_id)

Outcome == actions'[i + 1]

\* the fetched records of this cycle classified NewProblem or StatusChange
Emitted ==
    { response[m] : m \in { n \in 1..Len(actions) :
                              actions[n] \in {"NewProblem", "StatusChange"} } }

\* a step of the clear-cache command, wherever the engine is
ClearStep == cleared'.runs = cleared.runs + 1

\* clear-cache has run since the classification loop of the current cycle
\* began
ClearedInCycle ==
    cleared.runs > 0 /\ cleared.cycle = cycle /\ cleared.at \in {"check", "join"}

\* the row the table holds for the record being classified
InTable == get_problem(forwarded_problems, Current.problem_id)

\* the row get_problem returned has the status of the record
SameStatus == is_some(Stored) /\ Stored[1].status = to_string(Current.status)

\* C1: for a fetched record whose problem id is tracked with a stored status
\* equal to the observed one, get_problem returns that row unless the read
\* fails; check_problem then makes no insert and no update and returns Skipped
\* (UNCHANGED), the tracking rows and the forward list stay as they are, and
\* delivery tasks are only ever created for records classified NewProblem or
\* StatusChange.
C1_UnchangedIsSkipped ==
    [][ /\ (LookupStep /\ is_some(InTable)
              /\ InTable[1].status = to_string(Current.status)
              /\ checking'.db_error = "none")
           => checking'.db_problem = InTable
        /\ WriteStep => ~SameStatus
        /\ (CheckStep /\ SameStatus)
           => /\ Outcome = "Skipped"
              /\ checking.stage = "get_problem"
              /\ forwarded_problems' = forwarded_problems
              /\ problems_to_forward' = problems_to_forward
        /\ (CheckStep /\ checking.db_error = "get_problem")
           => /\ Outcome = "Err(get_problem)"
              /\ checking.stage = "get_problem"
              /\ forwarded_problems' = forwarded_problems
              /\ problems_to_forward' = problems_to_forward
        /\ (Len(forward_tasks') > Len(forward_tasks))
           => \A k \in (Len(forward_tasks) + 1)..Len(forward_tasks') :
                 \A j \in 1..Len(forward_tasks'[k].problems) :
                    forward_tasks'[k].problems[j] \in Emitted
      ]_vars

\* C1 witness: in the second cycle a tracked record was classified Skipped
\* while another record of the same fetch goes to the connectors
C1_Witness ==
    /\ cycle = 2
    /\ pc = "join"
    /\ \E m \in 1..Len(actions) :
          /\ actions[m] = "Skipped"
          /\ response[m] \notin Emitted
          /\ is_some(get_problem(forwarded_problems, response[m].problem_id))
    /\ Emitted # {}

\* C2 as stated: a record found absent is classified NewProblem and inserted
\* with the observed status and forward_count = 1; as long as clear-cache has
\* not run, any later cycle that fetches the id with the status it was
\* NewProblem with classifies the record Skipped; and an id is classified
\* NewProblem at most once. Read in its favour: the NewProblem was returned
\* by this run of the engine, and no store call of the later classification
\* failed.
C2_LaterFetchUnchanged ==
       [][ /\ (WriteStep /\ ~is_some(Stored) /\ ~IsErr(checking'.action))
              => /\ checking'.action = "NewProblem"
                 /\ is_some(StoredAfter)
                 /\ StoredAfter[1].status = to_string(Current.status)
                 /\ StoredAfter[1].forward_count = 1
           /\ (CheckStep /\ cleared.runs = 0
                 /\ first_new[Current.problem_id].status = to_string(Current.status)
                 /\ first_new[Current.problem_id].cycle >= 1
                 /\ first_new[Current.problem_id].cycle < cycle
                 /\ ~IsErr(Outcome))
              => /\ Outcome = "Skipped"
                 /\ problems_to_forward' = problems_to_forward
           /\ \A id \in ProblemIds : new_count'[id] <= 1
         ]_vars

\* C2: for a fetched record whose problem id get_problem finds absent,
\* check_problem, when the store calls succeed, inserts a row with the
\* observed status and forward_count = 1, returns NewProblem and the record
\* is put on the forward list. As long as clear-cache has not run, a lookup
\* that does not fail finds an id that has been written with the status last
\* written for it (by its insert or its latest update); the record is Skipped
\* when the status found equals the fetched one and, the update succeeding,
\* StatusChange and put on the forward list when it differs, also when the
\* fetched status is the one the id was NewProblem with. Between two
\* clear-cache commands an id is classified NewProblem at most once.
C2_NewOnce ==
       [][ /\ (WriteStep /\ ~is_some(Stored) /\ ~IsErr(checking'.action))
              => /\ checking'.action = "NewProblem"
                 /\ Len(forwarded_problems') = Len(forwarded_problems) + 1
                 /\ is_some(StoredAfter)
                 /\ StoredAfter[1].status = to_string(Current.status)
                 /\ StoredAfter[1].forward_count = 1
           /\ (CheckStep /\ ~is_some(Stored) /\ ~IsErr(Outcome))
              => /\ Outcome = "NewProblem"
                 /\ checking.stage = "write"
                 /\ problems_to_forward' = Append(problems_to_forward, Current)
           /\ (LookupStep /\ cleared.runs = 0
                 /\ last_seen[Current.problem_id] # "none"
                 /\ checking'.db_error = "none")
              => /\ is_some(checking'.db_problem)
                 /\ checking'.db_problem[1].status = last_seen[Current.problem_id]
           /\ (CheckStep /\ SameStatus)
              => /\ Outcome = "Skipped"
                 /\ problems_to_forward' = problems_to_forward
           /\ (CheckStep /\ is_some(Stored) /\ ~SameStatus /\ ~IsErr(Outcome))
              => /\ Outcome = "StatusChange"
                 /\ problems_to_forward' = Append(problems_to_forward, Current)
           /\ (CheckStep /\ cleared.runs = 0
                 /\ first_new[Current.problem_id].status = to_string(Current.status)
                 /\ first_new[Current.problem_id].cycle < cycle
                 /\ ~IsErr(Outcome))
              => Outcome = (IF SameStatus THEN "Skipped" ELSE "StatusChange")
           /\ \A id \in ProblemIds : new_count'[id] <= 1
         ]_vars

\* C2 witness: P2, absent at start and never cleared, was classified
\* NewProblem once and is now fetched again with the same status and Skipped
C2_Witness ==
    /\ cycle = 2
    /\ pc = "check"
    /\ i >= 1
    /\ response[i].problem_id = "P2"
    /\ actions[i] = "Skipped"
    /\ new_count["P2"] = 1
    /\ cleared.runs = 0

\* C3: for a fetched record whose problem id get_problem finds tracked with a
\* stored status that differs from the observed one, check_problem, when the
\* store calls succeed, makes the row's status the observed status and its
\* forward_count one more, and returns StatusChange, and the record is put on
\* the forward list; StatusChange is only produced for such a record, and
\* classifying the same record again right after the update yields Skipped.
C3_StatusChange ==
    [][ /\ (WriteStep /\ is_some(Stored) /\ ~IsErr(checking'.action))
           => /\ checking'.action = "StatusChange"
              /\ Len(forwarded_problems') = Len(forwarded_problems)
              /\ is_some(StoredAfter)
              /\ StoredAfter[1].status = to_string(Current.status)
              /\ StoredAfter[1].forward_count = Stored[1].forward_count + 1
              /\ check_problem(forwarded_problems', StoredAfter, Current, "none",
                               now).action = "Skipped"
        /\ (CheckStep /\ is_some(Stored) /\ ~SameStatus /\ ~IsErr(Outcome))
           => /\ Outcome = "StatusChange"
              /\ problems_to_forward' = Append(problems_to_forward, Current)
        /\ (CheckStep /\ Outcome = "StatusChange")
           => /\ is_some(Stored)
              /\ ~SameStatus
      ]_vars

P1Open == [ problem_id |-> "P1", status |-> "Open" ]

P1Resolved == [ problem_id |-> "P1", status |-> "Resolved" ]

\* the cycle's record has been classified
Classified(c) == cycle = c /\ (pc # "check" \/ i = 1)

\* check_problem has made its insert or update for the cycle's record, or
\* returned without one
Written(c) == cycle = c /\ (pc # "check" \/ i = 1 \/ checking.stage = "write")

\* the store holds exactly one row, for P1, with this status and forward_count
OnlyRow(status, forward_count) ==
    /\ Len(forwarded_problems) = 1
    /\ forwarded_problems[1].problem_id = "P1"
    /\ forwarded_problems[1].status = status
    /\ forwarded_problems[1].forward_count = forward_count

\* every configured connector has a task carrying exactly this problem
TaskPerConnector(problem) ==
    /\ \A c \in 1..Len(connectors) :
          \E k \in 1..Len(forward_tasks) :
             /\ forward_tasks[k].connector = c
             /\ forward_tasks[k].problems = << problem >>
    /\ \A k \in 1..Len(forward_tasks) : forward_tasks[k].cycle = cycle

\* the latest completed fan-out, of cycle c, attempted this problem and nothing
\* else on every configured connector
FanoutWas(c, problem) ==
    /\ last_fanout.cycle = c
    /\ { << d.connector, d.problem >> : d \in last_fanout.deliveries }
          = { << connectors[k].name, problem >> : k \in 1..Len(connectors) }
    /\ \A d \in last_fanout.deliveries : d.result \in {"success", "failed"}

\* C4: from an empty store, over three cycles that fetch P1 OPEN, P1 OPEN and
\* P1 RESOLVED: cycle 1 leaves the row (P1, OPEN, forward_count 1) and attempts
\* one delivery of P1 on every configured connector; cycle 2 leaves the store
\* as it is, classifies the record Skipped and creates no task, so nothing is
\* delivered; cycle 3 leaves the row (P1, RESOLVED, forward_count 2) and again
\* attempts one delivery on every configured connector.
C4_Scenario ==
    /\ (cycle = 0 \/ (cycle = 1 /\ ~Written(1))) => forwarded_problems = << >>
    /\ (Written(1) \/ cycle = 2 \/ (cycle = 3 /\ ~Written(3)))
          => OnlyRow("OPEN", 1)
    /\ (cycle = 1 /\ pc = "join") => TaskPerConnector(P1Open)
    /\ ((cycle = 1 /\ pc \in {"sleep", "poll"}) \/ cycle = 2 \/ (cycle = 3 /\ pc = "check"))
          => FanoutWas(1, P1Open)
    /\ cycle = 2
          => /\ pc # "join"
             /\ forward_tasks = << >>
             /\ Classified(2) => (pc = "check" => actions = << "Skipped" >>)
             /\ \A h \in BagToSet(forward_history) : h.forwarded_at # now
    /\ Written(3) => OnlyRow("RESOLVED", 2)
    /\ (cycle = 3 /\ pc = "join") => TaskPerConnector(P1Resolved)
    /\ (cycle = 3 /\ pc \in {"sleep", "poll"}) => FanoutWas(3, P1Resolved)

\* C4 witness: the third cycle has ended, both deliveries of the RESOLVED
\* record succeeded and were written to the history
C4_Witness ==
    /\ cycle = 3
    /\ pc = "sleep"
    /\ last_fanout.cycle = 3
    /\ \A d \in last_fanout.deliveries : d.result = "success"
    /\ \E h \in BagToSet(forward_history) : h.forwarded_at = 3 /\ h.connector_name = "pager"
    /\ \E h \in BagToSet(forward_history) : h.forwarded_at = 1 /\ h.connector_name = "siem"

\* every delivery of this record in the latest completed fan-out failed
AllFailed(problem) ==
    /\ \E d \in last_fanout.deliveries : d.problem = problem
    /\ \A d \in last_fanout.deliveries : d.problem = problem => d.result = "failed"

\* clear-cache has run since the classification loop of the cycle of the
\* latest completed fan-out began
ClearedSinceFanout == cleared.runs > 0 /\ cleared.cycle >= last_fanout.cycle

\* C5: spawning, running and joining delivery tasks never changes a tracking
\* row, so the rows written by classification stay whatever the deliveries
\* return: when the fan-out ends (no clear-cache since the cycle's
\* classification began) every record it carried is tracked with the status
\* observed; and a record whose every delivery failed, fetched again with the
\* same status (no clear-cache in between), is found with that status,
\* classified Skipped and not put on the forward list: the failed delivery is
\* not attempted again.
C5_NoRollbackNoRedelivery ==
    [][ /\ (forward_tasks' # forward_tasks) => forwarded_problems' = forwarded_problems
        /\ (pc = "join" /\ pc' # "join" /\ ~ClearedInCycle)
           => \A d \in last_fanout'.deliveries :
                 /\ is_some(get_problem(forwarded_problems', d.problem.problem_id))
                 /\ get_problem(forwarded_problems', d.problem.problem_id)[1].status
                       = to_string(d.problem.status)
        /\ (LookupStep /\ AllFailed(Current) /\ ~ClearedSinceFanout
              /\ last_seen[Current.problem_id] = to_string(Current.status))
           => /\ is_some(checking'.db_problem)
              /\ checking'.db_problem[1].status = to_string(Current.status)
        /\ (CheckStep /\ AllFailed(Current) /\ SameStatus)
           => /\ Outcome = "Skipped"
              /\ problems_to_forward' = problems_to_forward
              /\ forwarded_problems' = forwarded_problems
      ]_vars

\* C5 witness: a record that failed on both connectors in cycle 1 is fetched
\* again in cycle 2 and Skipped, and the cycle ends without a task
C5_Witness ==
    /\ cycle = 2
    /\ pc = "check"
    /\ i = Len(response)
    /\ i >= 1
    /\ last_fanout.cycle = 1
    /\ AllFailed(response[i])
    /\ actions[i] = "Skipped"
    /\ problems_to_forward = << >>
    /\ cleared.runs = 0

\* no earlier record of this fetch with the same id was classified
FirstOfItsId ==
    \A m \in 1..i : response[m].problem_id = Current.problem_id => IsErr(actions[m])

\* the first cycle that starts after the latest clear-cache is running
NextCycleAfterClear == cleared.runs > 0 /\ cycle = cleared.cycle + 1

\* C6 as stated: in the cycle that follows a clear-cache, every fetched record
\* is classified NewProblem and put on the forward list. Read in its favour:
\* only the first record of each id in the fetch, and only when no store call
\* of its classification failed.
C6_NextCycleAllNew ==
    [][ (CheckStep /\ NextCycleAfterClear /\ FirstOfItsId /\ ~IsErr(Outcome))
           => /\ Outcome = "NewProblem"
              /\ problems_to_forward' = Append(problems_to_forward, Current)
      ]_vars

\* C6: (1) clear-cache deletes every tracking row, reports the number of rows
\* it deleted and leaves the delivery history as it is. After it an id is
\* untracked until a record of it is inserted again: (2) a get_problem that
\* does not fail finds no row for an id not inserted since the clear and
\* (3) finds a row for an id inserted since the clear; (4) a record whose
\* lookup found no row is, no store call failing, classified NewProblem and
\* put on the forward list, and (5) a record whose lookup found a row is not
\* classified NewProblem. When the latest clear-cache ran while no cycle was
\* classifying or delivering, in the cycle that follows it (6) the first
\* record of each id classified without a store error is NewProblem and put
\* on the forward list, and (7) a later record of that id classified without
\* a store error is Skipped or StatusChange. When it ran while a cycle was
\* classifying or delivering, in the cycle that follows (8) the first record
\* of an id classified without a store error is Skipped or StatusChange if
\* the interrupted cycle inserted the id after the clear, and NewProblem and
\* put on the forward list otherwise.
C6_ClearCache ==
    [][ /\ ClearStep
           => /\ forwarded_problems' = << >>
              /\ cleared'.count = Len(forwarded_problems)
              /\ forward_history' = forward_history
        /\ (LookupStep /\ cleared.runs > 0 /\ new_count[Current.problem_id] = 0
              /\ checking'.db_error = "none")
           => ~is_some(checking'.db_problem)
        /\ (LookupStep /\ cleared.runs > 0 /\ new_count[Current.problem_id] > 0
              /\ checking'.db_error = "none")
           => is_some(checking'.db_problem)
        /\ (CheckStep /\ cleared.runs > 0 /\ ~is_some(Stored) /\ ~IsErr(Outcome))
           => /\ Outcome = "NewProblem"
              /\ problems_to_forward' = Append(problems_to_forward, Current)
        /\ (CheckStep /\ cleared.runs > 0 /\ is_some(Stored))
           => Outcome # "NewProblem"
        /\ (CheckStep /\ NextCycleAfterClear /\ cleared.at \notin {"check", "join"}
              /\ FirstOfItsId /\ ~IsErr(Outcome))
           => /\ Outcome = "NewProblem"
              /\ problems_to_forward' = Append(problems_to_forward, Current)
        /\ (CheckStep /\ NextCycleAfterClear /\ cleared.at \notin {"check", "join"}
              /\ ~FirstOfItsId /\ ~IsErr(Outcome))
           => Outcome \in {"Skipped", "StatusChange"}
        /\ (CheckStep /\ NextCycleAfterClear /\ cleared.at \in {"check", "join"}
              /\ FirstOfItsId /\ ~IsErr(Outcome))
           => IF /\ first_new[Current.problem_id].status # "none"
                 /\ first_new[Current.problem_id].cycle = cleared.cycle
              THEN Outcome \in {"Skipped", "StatusChange"}
              ELSE /\ Outcome = "NewProblem"
                   /\ problems_to_forward' = Append(problems_to_forward, Current)
      ]_vars

\* C6 witness: after a first cycle that tracked two problems and wrote history,
\* clear-cache, run during the sleep, reported 2 rows, and the second cycle
\* classified both records of its fetch NewProblem again
C6_Witness ==
    /\ cleared = [ count |-> 2, cycle |-> 1, at |-> "sleep", runs |-> 1 ]
    /\ cycle = 2
    /\ pc = "join"
    /\ actions = << "NewProblem", "NewProblem" >>
    /\ problems_to_forward = response
    /\ forward_history # EmptyBag
    /\ Len(forwarded_problems) = 2

\* C7: whenever a delivery task exists, and so before the first delivery
\* attempt of a cycle begins, the classification loop of that cycle has
\* consumed every fetched record: no check_problem call is in progress, each
\* record has its outcome and (no clear-cache since the loop began) each
\* fetched problem is tracked with the status observed.
C7_ClassifyThenDeliver ==
    forward_tasks # << >>
       => /\ pc = "join"
          /\ i = Len(response)
          /\ Len(actions) = Len(response)
          /\ checking = NotChecking
          /\ ~ClearedInCycle
                => \A m \in 1..Len(response) :
                      /\ is_some(get_problem(forwarded_problems, response[m].problem_id))
                      /\ get_problem(forwarded_problems, response[m].problem_id)[1].status
                            = to_string(response[m].status)

\* C7 witness: two records were fetched, the second one Skipped, and the task
\* of the first has made an attempt
C7_Witness ==
    /\ pc = "join"
    /\ Len(response) = 2
    /\ actions = << "StatusChange", "Skipped" >>
    /\ \E k \in 1..Len(forward_tasks) : forward_tasks[k].attempt >= 1

\* C8: while the engine sleeps, fetches or classifies, no delivery task is
\* unfinished: every task of a cycle, retries included, has reached its final
\* result and written its history before the engine leaves the fan-out, and
\* every task alive belongs to the current cycle.
C8_NoOverlap ==
    /\ pc \in {"sleep", "poll", "check"}
          => \A k \in 1..Len(forward_tasks) : forward_tasks[k].done
    /\ \A k \in 1..Len(forward_tasks) : forward_tasks[k].cycle = cycle
    /\ \A d \in last_fanout.deliveries : d.result \in {"success", "failed"}

\* C8 witness: the second cycle classifies while the first cycle's fan-out,
\* in which the individual connector used both of its attempts and failed, is
\* over
C8_Witness ==
    /\ cycle = 2
    /\ pc = "check"
    /\ last_fanout.cycle = 1
    /\ \E d \in last_fanout.deliveries : d.connector = "pager" /\ d.result = "failed"
    /\ forward_tasks = << >>

\* C9: when the fetch fails (the only way poll_and_forward returns Err),
\* the cycle changes no tracking row and no history
\* row and creates no delivery task; poll_and_forward returns the error, the
\* engine goes to its interval sleep, and from the sleep it goes on to the
\* next fetch: the error does not end the poll loop.
C9_FetchFailure ==
    [][ /\ (pc = "poll" /\ cycle' = cycle + 1 /\ poll_result' = "Err")
           => /\ pc' = "sleep"
              /\ forwarded_problems' = forwarded_problems
              /\ forward_history' = forward_history
              /\ forward_tasks' = << >>
              /\ problems_to_forward' = << >>
        /\ (pc = "sleep" /\ pc' # "sleep") => pc' = "poll"
        /\ pc' \in {"poll", "check", "join", "sleep"}
      ]_vars

\* C9 witness: the first fetch failed, the engine slept and is about to fetch
\* again over the untouched store
C9_Witness ==
    /\ pc = "poll"
    /\ cycle = 1
    /\ poll_result = "Err"
    /\ now = 2
    /\ forwarded_problems = << ForwardedProblemNew("P1", "OPEN", 0) >>

\* C10: a store error while one record is classified leaves the loop running:
\* the failed call changes no row, the record is not forwarded, the loop goes
\* on to the next record, and it is only left when every fetched record has an
\* outcome; the records classified NewProblem or StatusChange are then on the
\* forward list, in fetch order, and the batch task spawned for a connector
\* carries that list.
C10_StoreErrorSkipsRecord ==
    [][ /\ (WriteStep /\ IsErr(checking'.action))
           => forwarded_problems' = forwarded_problems
        /\ (CheckStep /\ IsErr(Outcome))
           => /\ pc' = "check"
              /\ forwarded_problems' = forwarded_problems
              /\ problems_to_forward' = problems_to_forward
        /\ (pc = "check" /\ i < Len(response))
           => (pc' = "check" /\ i' \in {i, i + 1})
        /\ (pc = "check" /\ pc' # "check")
           => /\ Len(actions) = Len(response)
              /\ { problems_to_forward[k] : k \in 1..Len(problems_to_forward) } = Emitted
              /\ Len(problems_to_forward) =
                    Cardinality({ m \in 1..Len(actions) : ~IsErr(actions[m])
                                                         /\ actions[m] # "Skipped" })
              /\ Emitted # {}
                    => /\ pc' = "join"
                       /\ \A c \in 1..Len(connectors) :
                             \E k \in 1..Len(forward_tasks') :
                                /\ forward_tasks'[k].connector = c
                                /\ forward_tasks'[k].problems = problems_to_forward
      ]_vars

\* C10 witness: the first record hit a store error, the second was classified
\* NewProblem and is with the connector's task
C10_Witness ==
    /\ pc = "join"
    /\ Len(actions) = 2
    /\ IsErr(actions[1])
    /\ actions[2] = "NewProblem"
    /\ \E k \in 1..Len(forward_tasks) : forward_tasks[k].problems = << response[2] >>

\* the max_attempts a task's connector passes to retry_with_backoff
MaxOf(task) == max_attempts(connectors[task.connector])

\* every invocation so far returned Err
AllFailedSends(task) == \A n \in 1..Len(task.sent) : ~task.sent[n].ok

\* C13: while an operation has failed k < max_attempts times it is invoked
\* again; the first success is the last invocation (no invocation follows
\* it), it is what retry returns, and with k failures before it the
\* operation has been invoked exactly k + 1 times.
C13_RetryReturnsFirstSuccess ==
    \A t \in 1..Len(forward_tasks) :
       LET task == forward_tasks[t] IN
       /\ task.attempt = Len(task.sent)
       /\ (AllFailedSends(task) /\ Len(task.sent) < MaxOf(task))
             => task.result = "pending"
       /\ \A n \in 1..Len(task.sent) :
             task.sent[n].ok
                => /\ n = Len(task.sent)
                   /\ \A m \in 1..(n - 1) : ~task.sent[m].ok
                   /\ task.attempt = n
                   /\ task.result = "success"
                   /\ task.response_code = Some(task.sent[n].code)

\* C13 witness: with max_attempts = 3 the operation failed twice and then
\* succeeded: three invocations, success returned
C13_Witness ==
    \E t \in 1..Len(forward_tasks) :
       /\ MaxOf(forward_tasks[t]) = 3
       /\ Len(forward_tasks[t].sent) = 3
       /\ ~forward_tasks[t].sent[1].ok
       /\ ~forward_tasks[t].sent[2].ok
       /\ forward_tasks[t].sent[3].ok
       /\ forward_tasks[t].result = "success"
       /\ forward_tasks[t].attempt = 3

\* C14: when retry returns an error the operation has been invoked exactly
\* max_attempts times, every invocation failed and the error returned is
\* that of the last invocation; with max_attempts = 1 there is one
\* invocation and no delay.
C14_AlwaysFailing ==
    \A t \in 1..Len(forward_tasks) :
       LET task == forward_tasks[t] IN
       /\ task.result = "failed"
             => /\ task.attempt = MaxOf(task)
                /\ AllFailedSends(task)
                /\ task.error_message = Some(task.sent[Len(task.sent)].message)
       /\ MaxOf(task) = 1 => (task.attempt <= 1 /\ task.delays = << >>)

\* C15: the operation is invoked at most max_attempts times, whatever
\* max_attempts is and whatever the operation returns.
C15_AtMostMaxAttempts ==
    \A t \in 1..Len(forward_tasks) :
       forward_tasks[t].attempt <= MaxOf(forward_tasks[t])

\* C16: the n-th delay is 2^(n-1) seconds (1, 2, 4, ...), each delay follows
\* a failed invocation and precedes the next one: a task that has returned
\* slept one time less than it invoked the operation, and nothing is slept
\* after the final failed attempt.
C16_BackoffDelays ==
    \A t \in 1..Len(forward_tasks) :
       LET task == forward_tasks[t] IN
       /\ \A n \in 1..Len(task.delays) :
             /\ task.delays[n] = (IF n = 1 THEN 1 ELSE 2 * task.delays[n - 1])
             /\ ~task.sent[n].ok
       /\ task.result = "pending" => Len(task.delays) = task.attempt
       /\ task.result # "pending" => Len(task.delays) = task.attempt - 1

\* C16 witness: three failed invocations with max_attempts = 3: the delays
\* were 1 and 2 seconds, and none after the third failure
C16_Witness ==
    \E t \in 1..Len(forward_tasks) :
       /\ forward_tasks[t].result = "failed"
       /\ forward_tasks[t].attempt = 3
       /\ forward_tasks[t].delays = << 1, 2 >>

\* a step of one delivery task: an attempt or a history append
TaskStep ==
    /\ Len(forward_tasks') = Len(forward_tasks)
    /\ forward_tasks' # forward_tasks

\* the step that spawns the tasks of a cycle
SpawnStep == pc = "check" /\ pc' = "join"

\* the step in which the fan-out returns
JoinStep == pc = "join" /\ pc' # "join"

\* the tasks of connector c
TasksOf(tasks, c) == SelectSeq(tasks, LAMBDA task : task.connector = c)

\* C11: the fan-out gives every connector a task for every record needing
\* delivery, and a step of one task (an attempt that fails or succeeds, a
\* history append) leaves every other task as it is, the tasks of other
\* connectors and the tasks of other records on the same connector alike:
\* no failure of one delivery ends, fails or alters another.
C11_FailuresIsolated ==
    [][ /\ SpawnStep
           => \A c \in 1..Len(connectors) :
                 \A n \in 1..Len(problems_to_forward) :
                    \E k \in 1..Len(forward_tasks') :
                       /\ forward_tasks'[k].connector = c
                       /\ forward_tasks'[k].result = "pending"
                       /\ \E j \in 1..Len(forward_tasks'[k].problems) :
                             forward_tasks'[k].problems[j] = problems_to_forward[n]
        /\ TaskStep
           => \E t \in 1..Len(forward_tasks) :
                 /\ forward_tasks'[t].connector = forward_tasks[t].connector
                 /\ forward_tasks'[t].problems = forward_tasks[t].problems
                 /\ \A u \in 1..Len(forward_tasks) :
                       u # t => forward_tasks'[u] = forward_tasks[u]
      ]_vars

\* C11 witness: the batch connector failed, the individual connector failed
\* on both of its attempts for one record, and its delivery of the other
\* record succeeded
C11_Witness ==
    /\ pc = "join"
    /\ Len(forward_tasks) = 3
    /\ AllTasksComplete(forward_tasks)
    /\ forward_tasks[1].result = "failed"
    /\ forward_tasks[2].result = "failed"
    /\ forward_tasks[2].attempt = 2
    /\ forward_tasks[3].result = "success"
    /\ forward_tasks[3].connector = forward_tasks[2].connector

RECURSIVE Requests(_)
\* the outbound requests these tasks have issued: one per attempt
Requests(tasks) ==
    IF tasks = << >> THEN 0 ELSE Head(tasks).attempt + Requests(Tail(tasks))

\* C12 as stated: when the fan-out of N records is over, a batch-mode
\* connector has issued exactly 1 request and an individual-mode connector
\* exactly N requests.
C12_OneRequestPerDelivery ==
    (pc = "join" /\ AllTasksComplete(forward_tasks))
       => \A c \in 1..Len(connectors) :
             Requests(TasksOf(forward_tasks, c)) =
                (IF is_batch_mode(connectors[c]) THEN 1 ELSE Len(problems_to_forward))

\* C12 amended: for N records needing delivery a batch-mode connector gets
\* exactly 1 delivery call carrying all N records and an individual-mode
\* connector exactly N calls, one per record in order; a call issues one
\* request per attempt of the retry executor, each with the call's payload:
\* one request when the first attempt succeeds, one more per retry.
C12_OneCallPerDelivery ==
    pc = "join"
       => \A c \in 1..Len(connectors) :
             LET calls == TasksOf(forward_tasks, c) IN
             /\ is_batch_mode(connectors[c])
                   => /\ Len(calls) = 1
                      /\ calls[1].problems = problems_to_forward
             /\ ~is_batch_mode(connectors[c])
                   => /\ Len(calls) = Len(problems_to_forward)
                      /\ \A n \in 1..Len(calls) :
                            calls[n].problems = << problems_to_forward[n] >>
             /\ \A n \in 1..Len(calls) :
                   /\ calls[n].attempt = Len(calls[n].sent)
                   /\ calls[n].result = "success"
                         => calls[n].attempt = 1 + Len(calls[n].delays)
                   /\ (calls[n].attempt >= 1 /\ calls[n].sent[1].ok)
                         => calls[n].attempt = 1
                   /\ calls[n].result # "pending" => calls[n].attempt >= 1

\* C12 witness: two records; the batch connector's single call issued one
\* request with both, the individual connector's two calls one request each
C12_Witness ==
    /\ pc = "join"
    /\ Len(problems_to_forward) = 2
    /\ AllTasksComplete(forward_tasks)
    /\ Len(forward_tasks) = 3
    /\ forward_tasks[1].problems = problems_to_forward
    /\ \A t \in 1..3 : forward_tasks[t].attempt = 1 /\ forward_tasks[t].result = "success"

\* the history rows written at time t for this connector and problem id
RowsFor(connector_name, problem_id, t) ==
    { h \in BagToSet(forward_history) :
        /\ h.connector_name = connector_name
        /\ h.problem_id = problem_id
        /\ h.forwarded_at = t }

\* C17: a history row is appended only by a task that has its final outcome,
\* for the next record of that task and with that outcome; when the fan-out
\* of the records R over the connectors C returns (every history write
\* succeeding), the cycle has appended exactly |C| * |R| rows, exactly one
\* per (connector, record) pair.
C17_HistoryPerDelivery ==
    [][ /\ forward_history' # forward_history
           => \E t \in 1..Len(forward_tasks) :
                 /\ forward_tasks[t].result \in {"success", "failed"}
                 /\ forward_tasks[t].attempt >= 1
                 /\ forward_tasks'[t].recorded = forward_tasks[t].recorded + 1
                 /\ forward_history' =
                       forward_history (+) SetToBag({
                          [ problem_id |->
                               forward_tasks[t].problems[forward_tasks'[t].recorded].problem_id,
                            connector_name |-> connectors[forward_tasks[t].connector].name,
                            status |-> forward_tasks[t].result,
                            response_code |-> forward_tasks[t].response_code,
                            error_message |-> forward_tasks[t].error_message,
                            forwarded_at |-> now ] })
        /\ JoinStep
           => /\ \A c \in 1..Len(connectors) :
                    \A n \in 1..Len(problems_to_forward) :
                       LET rows == RowsFor(connectors[c].name,
                                           problems_to_forward[n].problem_id, now)
                       IN  /\ Cardinality(rows) = 1
                           /\ \A h \in rows : CopiesIn(h, forward_history) = 1
              /\ Cardinality({ h \in BagToSet(forward_history) : h.forwarded_at = now })
                    = Len(connectors) * Len(problems_to_forward)
      ]_vars

\* C17 witness: two connectors and two records: four history rows of this
\* cycle when the fan-out has returned
C17_Witness ==
    /\ pc = "sleep"
    /\ cycle = 1
    /\ Cardinality(last_fanout.deliveries) = 4
    /\ BagCardinality(forward_history) = 4
    /\ \E h \in BagToSet(forward_history) : h.status = "failed"
    /\ \E h \in BagToSet(forward_history) : h.status = "success"

\* a history append that failed: the task moved past a record and the
\* history did not change
FailedAppend(t) ==
    /\ t \in 1..Len(forward_tasks)
    /\ Len(forward_tasks') = Len(forward_tasks)
    /\ forward_tasks'[t].recorded = forward_tasks[t].recorded + 1
    /\ forward_history' = forward_history

\* C18: when a history append fails, the task keeps its delivery outcome and
\* goes on to the append of its next record (it is done only when it has
\* gone through all of its records), no other state changes, and the cycle
\* still returns Ok from the fan-out.
C18_HistoryErrorSwallowed ==
    [][ /\ \A t \in 1..Len(forward_tasks) :
              FailedAppend(t)
                 => /\ forward_tasks'[t].result = forward_tasks[t].result
                    /\ forward_tasks'[t].response_code = forward_tasks[t].response_code
                    /\ forward_tasks'[t].error_message = forward_tasks[t].error_message
                    /\ forward_tasks'[t].done
                          = (forward_tasks'[t].recorded = Len(forward_tasks[t].problems))
                    /\ pc' = pc
                    /\ poll_result' = poll_result
                    /\ forwarded_problems' = forwarded_problems
        /\ JoinStep => (poll_result' = "Ok" /\ pc' = "sleep")
      ]_vars

\* C18 witness: a successful batch delivery of two records whose first
\* history append failed and whose second was written; the cycle returned Ok
C18_Witness ==
    /\ pc = "sleep"
    /\ poll_result = "Ok"
    /\ last_fanout.cycle = cycle
    /\ cycle = 1
    /\ { d.problem.problem_id : d \in last_fanout.deliveries } = {"P1", "P2"}
    /\ \A d \in last_fanout.deliveries : d.result = "success"
    /\ { h.problem_id : h \in BagToSet(forward_history) } = {"P2"}
    /\ BagCardinality(forward_history) = 1

\* a call of this Database method has just returned
Called(op) == db_call'.seq = db_call.seq + 1 /\ db_call'.op = op

\* C19: update_problem_status for a problem id that has no row returns an
\* error and leaves the table as it is.
C19_UpdateAbsentFails ==
    [][ (Called("update_problem_status")
           /\ ~is_some(get_problem(forwarded_problems, db_call'.problem_id)))
        => /\ db_call'.result # "Ok"
           /\ forwarded_problems' = forwarded_problems
      ]_vars

\* C20: insert_problem for a problem id that has a row fails with the
\* conflict error (the unique-constraint failure, returned as
\* ForwarderError::Database) and leaves the table, the existing row included,
\* as it is; an insert of an id that has no row succeeds; after any call the
\* table holds at most one row per problem id. The constraint is the
\* specification's: the schema is not among the sources.
C20_InsertExistingFails ==
    [][ /\ (Called("insert_problem")
              /\ is_some(get_problem(forwarded_problems, db_call'.problem_id)))
           => /\ db_call'.result = "Err(Database(unique_violation))"
              /\ forwarded_problems' = forwarded_problems
        /\ (Called("insert_problem")
              /\ ~is_some(get_problem(forwarded_problems, db_call'.problem_id)))
           => /\ db_call'.result = "Ok"
              /\ Len(forwarded_problems') = Len(forwarded_problems) + 1
        /\ \A id \in ProblemIds : Len(RowsOf(forwarded_problems', id)) <= 1
      ]_vars

\* C20 witness: P1 is tracked as OPEN, an insert of P1 as RESOLVED was
\* refused, and the table still holds the one OPEN row
C20_Witness ==
    /\ db_call.op = "insert_problem"
    /\ db_call.problem_id = "P1"
    /\ db_call.status = "RESOLVED"
    /\ db_call.result = "Err(Database(unique_violation))"
    /\ Len(RowsOf(forwarded_problems, "P1")) = 1
    /\ get_problem(forwarded_problems, "P1")[1].status = "OPEN"

\* the process exits: main returns and the runtime is dropped
ExitStep == pc # "exited" /\ pc' = "exited"

\* C21: once the shutdown handler's future has resolved (shutdown has been
\* requested), the engine starts no further poll cycle: no step calls
\* poll_and_forward, so no fetch, classification or store write of a new
\* cycle begins.
C21_NoCycleAfterShutdown ==
    [][ shutdown_handle = "ready" => cycle' = cycle ]_vars

\* C22: a delivery task whose request is in flight when shutdown is requested
\* has obtained the response or error of that attempt by the time the
\* process exits.
C22_InFlightAttemptFinishes ==
    [][ ExitStep =>
           \A t \in 1..Len(forward_tasks) : forward_tasks[t] \notin at_signal ]_vars

\* a record that the latest exit left tracked and without any delivery, no
\* clear-cache having run since the cycle of that exit began
LeftUndelivered(problem) ==
    /\ problem \in interrupted.problems
    /\ cleared.cycle < interrupted.cycle

\* C23 as stated: when the process exits after classification has written a
\* record's status and before any connector has answered a request for it,
\* then unless clear-cache is run every later classification of that problem
\* with that status is Skipped and never puts it on the forward list.
C23_NeverDeliveredAgain ==
    [][ (CheckStep /\ LeftUndelivered(Current))
           => /\ Outcome = "Skipped"
              /\ problems_to_forward' = problems_to_forward ]_vars

\* C23: when the process exits after classification has written a record's
\* status and before any connector has answered a request for it, then after
\* the restart every classification of that problem with that status is
\* Skipped, writes nothing and schedules no delivery, as long as no
\* clear-cache has run and that status is still the one last classified for
\* the problem (no fetch with another status came in between).
C23_UndeliveredStaysSkipped ==
    [][ /\ (LookupStep /\ LeftUndelivered(Current)
              /\ last_seen[Current.problem_id] = to_string(Current.status)
              /\ checking'.db_error = "none")
           => /\ is_some(checking'.db_problem)
              /\ checking'.db_problem[1].status = to_string(Current.status)
        /\ (CheckStep /\ LeftUndelivered(Current) /\ SameStatus)
           => /\ Outcome = "Skipped"
              /\ checking.stage = "get_problem"
              /\ forwarded_problems' = forwarded_problems
              /\ problems_to_forward' = problems_to_forward
        /\ (Len(forward_tasks') > Len(forward_tasks))
           => \A k \in (Len(forward_tasks) + 1)..Len(forward_tasks') :
                 \A j \in 1..Len(forward_tasks'[k].problems) :
                    LeftUndelivered(forward_tasks'[k].problems[j])
                       => \E m \in 1..Len(actions) :
                             /\ response[m] = forward_tasks'[k].problems[j]
                             /\ actions[m] = "StatusChange"
      ]_vars

\* C23 witness: the first run exited with P1 tracked and nothing delivered;
\* the second run has fetched P1 with the same status and classified it
\* Skipped, no clear-cache having run and no history row existing
C23_Witness ==
    /\ starts = 2
    /\ pc = "check"
    /\ cleared.runs = 0
    /\ forward_history = EmptyBag
    /\ \E m \in 1..Len(actions) :
          /\ LeftUndelivered(response[m])
          /\ actions[m] = "Skipped"
          /\ is_some(get_problem(forwarded_problems, response[m].problem_id))

\* a step of the test-connectors command
TestStep == tests' # tests

\* C24: a Connector::test call sends the one synthetic record, and only it,
\* through the connector it is called on, and no step of the test command
\* adds, changes or removes a tracked-problem row or a history entry.
C24_TestLeavesStore ==
    [][ TestStep =>
          /\ forwarded_problems' = forwarded_problems
          /\ forward_history' = forward_history
          /\ forward_tasks' = forward_tasks
          /\ \A k \in 1..Len(tests') :
                /\ tests'[k].problems = << test_problem >>
                /\ tests'[k].connector = k
                /\ Len(tests'[k].sent) = tests'[k].attempt
                /\ k <= Len(tests) => tests'[k].connector = tests[k].connector
      ]_vars

\* C24 witness: over a database that tracks P1 and holds a history row of
\* the running engine, the test of the second connector has failed after the
\* test of the first succeeded
C24_Witness ==
    /\ Len(tests) = 2
    /\ tests[1].result = "success"
    /\ tests[2].result = "failed"
    /\ forwarded_problems # << >>
    /\ forward_history # EmptyBag

\* poll_and_forward returns from a cycle whose fetch succeeded
CycleEnd == pc \in {"check", "join"} /\ pc' = "sleep"

\* record m of the fetch is the last one of its problem id that was
\* classified without a store error
LastOfItsId(m) ==
    \A n \in (m + 1)..Len(actions) :
        response[n].problem_id = response[m].problem_id => IsErr(actions[n])

\* C25 as stated: when a cycle ends, for every fetched record classified
\* without a store error (the last such record of its problem id in the fetch)
\* the stored status of its problem id is the status the record was observed
\* with, whatever the results of the cycle's deliveries.
C25_AlwaysStored ==
    [][ CycleEnd =>
           \A m \in 1..Len(actions) :
              (~IsErr(actions[m]) /\ LastOfItsId(m))
                 => /\ is_some(get_problem(forwarded_problems', response[m].problem_id))
                    /\ get_problem(forwarded_problems', response[m].problem_id)[1].status
                          = to_string(response[m].status)
      ]_vars

\* C25: when a cycle ends, for every fetched record classified without a
\* store error (the last such record of its problem id in the fetch) the
\* row of its problem id, when there is one, has the status the record was
\* observed with, whatever the results of the cycle's deliveries, and there is
\* one unless clear-cache has run since the cycle's classification began; and
\* a step of a delivery task never changes a stored status.
C25_StoredIsObserved ==
    [][ /\ CycleEnd =>
             \A m \in 1..Len(actions) :
                (~IsErr(actions[m]) /\ LastOfItsId(m))
                   => IF is_some(get_problem(forwarded_problems', response[m].problem_id))
                      THEN get_problem(forwarded_problems', response[m].problem_id)[1].status
                              = to_string(response[m].status)
                      ELSE ClearedInCycle
        /\ forward_tasks' # forward_tasks => forwarded_problems' = forwarded_problems
      ]_vars

\* C25 witness: P1, tracked OPEN, was fetched RESOLVED; the delivery to the
\* connector failed and the cycle is over with P1 stored RESOLVED
C25_Witness ==
    /\ pc = "sleep"
    /\ last_fanout.cycle = cycle
    /\ \E d \in last_fanout.deliveries :
          /\ d.problem = [ problem_id |-> "P1", status |-> "Resolved" ]
          /\ d.result = "failed"
    /\ is_some(get_problem(forwarded_problems, "P1"))
    /\ get_problem(forwarded_problems, "P1")[1].status = "RESOLVED"
    /\ get_problem(forwarded_problems, "P1")[1].forward_count = 2

\* C26: in every state the forwarded_problems table holds at most one row
\* for a problem id, and a step after which an id that had a row has none is
\* a clear-cache: no step of a poll cycle or of a delivery task removes a
\* tracked row.
C26_UniqueRowsKept ==
    [][ /\ \A id \in ProblemIds :
              /\ Len(RowsOf(forwarded_problems, id)) <= 1
              /\ Len(RowsOf(forwarded_problems', id)) <= 1
        /\ (\E id \in ProblemIds :
               /\ Len(RowsOf(forwarded_problems, id)) > 0
               /\ Len(RowsOf(forwarded_problems', id)) = 0)
           => (ClearStep /\ forwarded_problems' = << >>)
      ]_vars

\* C26 witness: in the second cycle both ids are tracked, one of them after a
\* status change, the fetch being classified names an id twice, and no
\* clear-cache has run
C26_Witness ==
    /\ cycle = 2
    /\ pc = "check"
    /\ i = 2
    /\ response[1].problem_id = response[2].problem_id
    /\ actions[1] = "StatusChange"
    /\ Len(forwarded_problems) = 2
    /\ cleared.runs = 0
    /\ \A id \in ProblemIds : Len(RowsOf(forwarded_problems, id)) = 1

\* the forward_count of the row of a tracked problem id
forward_count(db, problem_id) == get_problem(db, problem_id)[1].forward_count

\* this step is the update of check_problem for a record of the problem id,
\* which the call then returns as StatusChange
ChangedStep(problem_id) ==
    /\ WriteStep
    /\ Current.problem_id = problem_id
    /\ checking'.action = "StatusChange"

\* C27: the forward_count of every tracked problem is at least 1; a step
\* that creates the row is the insert of a NewProblem classification and
\* leaves it at 1; while the row exists the update of a StatusChange
\* classification of the id raises it by exactly 1 and every other step
\* leaves it as it is, so that it never decreases and is 1 plus the number of
\* StatusChange classifications of the id since the row was inserted.
C27_ForwardCount ==
    [][ \A id \in ProblemIds :
          /\ is_some(get_problem(forwarded_problems, id))
                => forward_count(forwarded_problems, id) >= 1
          /\ (~is_some(get_problem(forwarded_problems, id))
                /\ is_some(get_problem(forwarded_problems', id)))
                => /\ WriteStep /\ Current.problem_id = id
                   /\ checking'.action = "NewProblem"
                   /\ forward_count(forwarded_problems', id) = 1
          /\ (is_some(get_problem(forwarded_problems, id))
                /\ is_some(get_problem(forwarded_problems', id)))
                => forward_count(forwarded_problems', id) =
                      forward_count(forwarded_problems, id)
                         + (IF ChangedStep(id) THEN 1 ELSE 0)
      ]_vars

\* C27 witness: P1, tracked since before the run, has been classified
\* StatusChange twice and its forward_count is 3; P2 was inserted in this run
\* and never changed
C27_Witness ==
    /\ pc = "sleep"
    /\ cleared.runs = 0
    /\ is_some(get_problem(forwarded_problems, "P1"))
    /\ forward_count(forwarded_problems, "P1") = 3
    /\ is_some(get_problem(forwarded_problems, "P2"))
    /\ forward_count(forwarded_problems, "P2") = 1

\* the connectors configured in batch mode, and those configured in
\* individual mode
BatchMode(conns) == { c \in 1..Len(conns) : is_batch_mode(conns[c]) }

IndividualMode(conns) == { c \in 1..Len(conns) : ~is_batch_mode(conns[c]) }

\* the positions of the tasks of connector c that carry exactly these problems
Carrying(tasks, c, problems) ==
    { k \in 1..Len(tasks) : tasks[k].connector = c /\ tasks[k].problems = problems }

Range(seq) == { seq[k] : k \in 1..Len(seq) }

\* C28: the partition of a cycle puts every connector in exactly one of the
\* batch and individual groups, the group of its configured mode; with B
\* batch connectors, I individual connectors and N records on the forward
\* list the fan-out spawns exactly B + I * N tasks: for each batch connector
\* one task carrying all N records and no other task, for each individual
\* connector and each record one task carrying that record alone.
C28_TasksScheduled ==
    [][ SpawnStep =>
          LET batch == Range(batch_connectors(connectors))
              individual == Range(individual_connectors(connectors))
              n == Len(problems_to_forward)
          IN  /\ batch \cup individual = 1..Len(connectors)
              /\ batch \cap individual = {}
              /\ batch = BatchMode(connectors)
              /\ Len(batch_connectors(connectors)) = Cardinality(batch)
              /\ Len(individual_connectors(connectors)) = Cardinality(individual)
              /\ forward_tasks = << >>
              /\ Len(forward_tasks') =
                    Cardinality(BatchMode(connectors))
                       + Cardinality(IndividualMode(connectors)) * n
              /\ \A c \in BatchMode(connectors) :
                    /\ Cardinality(Carrying(forward_tasks', c, problems_to_forward)) = 1
                    /\ Len(TasksOf(forward_tasks', c)) = 1
              /\ \A c \in IndividualMode(connectors) :
                    /\ Len(TasksOf(forward_tasks', c)) = n
                    /\ \A j \in 1..n :
                          Cardinality(Carrying(forward_tasks', c,
                                               << problems_to_forward[j] >>)) = 1
      ]_vars

\* C28 witness: one batch and two individual connectors and two records to
\* forward: 1 + 2 * 2 = 5 tasks are pending
C28_Witness ==
    /\ pc = "join"
    /\ Cardinality(BatchMode(connectors)) = 1
    /\ Cardinality(IndividualMode(connectors)) = 2
    /\ Len(problems_to_forward) = 2
    /\ Len(forward_tasks) = 5
    /\ \A t \in 1..Len(forward_tasks) : forward_tasks[t].result = "pending"

\* the history table after the step is the one before it plus one row
OneRowAppended ==
    \E row \in BagToSet(forward_history') :
        forward_history' = insert_forward_history(forward_history, row)

\* C29: from the step that spawns the tasks of a cycle until the fan-out has
\* returned, every step of the engine and of its tasks leaves the
\* forwarded_problems table as it is, in whatever order the tasks take their
\* steps (the only step that changes it meanwhile is the clear-cache command,
\* run as another process); a step of a delivery task writes nothing to the
\* store except that it may append one history row.
C29_TasksLeaveTrackedRows ==
    [][ /\ ((SpawnStep \/ pc = "join") /\ ~ClearStep)
           => forwarded_problems' = forwarded_problems
        /\ TaskStep
              => /\ forwarded_problems' = forwarded_problems
                 /\ forward_history' # forward_history => OneRowAppended
      ]_vars

\* C29 witness: both ids are tracked; of the cycle's three tasks one has
\* appended its history rows while another has failed an attempt and is
\* still pending
C29_Witness ==
    /\ pc = "join"
    /\ Len(forwarded_problems) = 2
    /\ Len(forward_tasks) = 3
    /\ forward_history # EmptyBag
    /\ \E t \in 1..Len(forward_tasks) :
          forward_tasks[t].done /\ forward_tasks[t].recorded = 2
    /\ \E t \in 1..Len(forward_tasks) :
          forward_tasks[t].result = "pending" /\ forward_tasks[t].attempt = 1

\* what check_problem makes of the record being classified, from the row
\* get_problem returned, the forwarded_problems table and the record alone
Classification == check_problem(forwarded_problems, Stored, Current, "none", now)

\* C30: the outcome of a classification, the table it leaves and the forward
\* list it leaves are those that check_problem computes from the
\* forwarded_problems rows and the observed record, and the tasks spawned are
\* those of the forward list, whatever the forward_history table holds: runs
\* over the same tracked rows and different histories classify and schedule
\* alike.
C30_HistoryNeverRead ==
    [][ /\ LookupStep
           => checking'.db_problem = get_problem(forwarded_problems, Current.problem_id)
        /\ WriteStep
           => /\ checking'.action = Classification.action
              /\ forwarded_problems' = Classification.db
        /\ CheckStep
           => /\ Outcome = (IF checking.stage = "write"
                            THEN checking.action
                            ELSE Classification.action)
              /\ forwarded_problems' = forwarded_problems
              /\ problems_to_forward' =
                    IF Outcome \in {"NewProblem", "StatusChange"}
                    THEN Append(problems_to_forward, Current)
                    ELSE problems_to_forward
        /\ SpawnStep
           => forward_tasks' = SpawnTasks(connectors, problems_to_forward, cycle)
        /\ (pc = "check" /\ pc' = "sleep") => problems_to_forward = << >>
      ]_vars

\* C30 witness: the history holds only a failed delivery of P1, P1 is tracked
\* OPEN and has been fetched OPEN: it is Skipped all the same and the cycle is
\* about to end without a delivery
C30_Witness ==
    /\ pc = "check"
    /\ cycle = 1
    /\ i = 1
    /\ Len(response) = 1
    /\ response[1] = [ problem_id |-> "P1", status |-> "Open" ]
    /\ actions[1] = "Skipped"
    /\ problems_to_forward = << >>
    /\ BagToSet(forward_history) # {}
    /\ \A row \in BagToSet(forward_history) : row.status = "failed"

\* the step is an attempt of task t: send_request has returned once more
AttemptStep(t) ==
    /\ t \in 1..Len(forward_tasks)
    /\ Len(forward_tasks') = Len(forward_tasks)
    /\ forward_tasks'[t].attempt = forward_tasks[t].attempt + 1

\* what the latest attempt of a task returned
LastSent(task) == task.sent[Len(task.sent)]

\* C31: an attempt returns Ok exactly when a response with a status code in
\* 200..299 arrived; a response with any other code and a transport error
\* are both Err. After an Err of either kind the task makes a further
\* attempt while it has made fewer than max_attempts, and fails for good
\* with the error of that attempt otherwise; after an Ok it has succeeded.
C31_SuccessIffTwoXX ==
    [][ \A t \in 1..Len(forward_tasks) :
          AttemptStep(t) =>
             LET task == forward_tasks'[t]
                 sent == LastSent(forward_tasks'[t])
             IN  /\ sent.ok = (sent.message = "" /\ is_success(sent.code))
                 /\ sent.message \in {"", "HTTP error", "transport error"}
                 /\ sent.message = "HTTP error" => ~is_success(sent.code)
                 /\ sent.message = "" => sent.code # 0
                 /\ sent.ok => (task.result = "success"
                                  /\ task.response_code = Some(sent.code))
                 /\ (~sent.ok /\ task.attempt < MaxOf(task))
                       => task.result = "pending"
                 /\ (~sent.ok /\ task.attempt >= MaxOf(task))
                       => (task.result = "failed"
                             /\ task.error_message = Some(sent.message))
      ]_vars

\* C31 witness: with max_attempts = 3 a 404 was retried, the transport error
\* of the second attempt was retried too, and the 204 of the third attempt
\* made the delivery a success
C31_Witness ==
    \E t \in 1..Len(forward_tasks) :
       /\ Len(forward_tasks[t].sent) = 3
       /\ forward_tasks[t].sent[1] = [ ok |-> FALSE, code |-> 404, message |-> "HTTP error" ]
       /\ forward_tasks[t].sent[2] = [ ok |-> FALSE, code |-> 0, message |-> "transport error" ]
       /\ forward_tasks[t].sent[3] = [ ok |-> TRUE, code |-> 204, message |-> "" ]
       /\ forward_tasks[t].result = "success"

\* C32: when every attempt returns, a delivery task has completed after at
\* most max_attempts attempts of its connector, so that a fan-out that has
\* been spawned always completes and poll_and_forward returns to the
\* interval wait of the loop.
C32_FanoutCompletes ==
    /\ [](\A t \in 1..Len(forward_tasks) :
             forward_tasks[t].done => forward_tasks[t].attempt <= MaxOf(forward_tasks[t]))
    /\ (pc = "join" ~> pc = "sleep")

\* the first page that failed or carries no nextPageKey: where the loop of
\* fetch_problems is left
LastRequested(pages) ==
    CHOOSE k \in 1..Len(pages) :
       /\ ~pages[k].ok \/ ~pages[k].next_page_key
       /\ \A j \in 1..(k - 1) : pages[j].ok /\ pages[j].next_page_key

\* the records of the first k pages, in page order
RECURSIVE Flattened(_, _)
Flattened(pages, k) ==
    IF k = 0 THEN << >> ELSE Flattened(pages, k - 1) \o pages[k].problems

\* C33: a fetch requests page after page while the page it got carries a
\* nextPageKey and stops at the first page that carries none; when no
\* requested page failed it returns Ok with the records of every requested
\* page concatenated in page order and with no nextPageKey, and pages the API
\* holds beyond the one without a key are not part of the result.
C33_FetchFlattens ==
    Len(fetched.pages) > 0 =>
       LET k == LastRequested(fetched.pages) IN
       IF fetched.pages[k].ok
       THEN /\ fetched.result.ok
            /\ fetched.result.problems = Flattened(fetched.pages, k)
            /\ ~fetched.result.next_page_key
       ELSE ~fetched.result.ok

\* C33 witness: two pages, the first with P2 and a nextPageKey, the second
\* with P1 and none: the result is P2, P1 without a key
C33_Witness ==
    /\ Len(fetched.pages) = 2
    /\ fetched.pages[1].next_page_key
    /\ fetched.pages[1].problems = << [ problem_id |-> "P2", status |-> "Open" ] >>
    /\ fetched.pages[2].problems = << [ problem_id |-> "P1", status |-> "Resolved" ] >>
    /\ fetched.result.ok
    /\ fetched.result.problems = << [ problem_id |-> "P2", status |-> "Open" ],
                                    [ problem_id |-> "P1", status |-> "Resolved" ] >>
    /\ ~fetched.result.next_page_key

\* C34: poll_and_forward returns Err only from its fetch: a cycle whose
\* fetch succeeded is running until it returns, and whichever store errors,
\* failed deliveries, failed history inserts and panicked tasks it met, the
\* step that ends it returns Ok.
C34_OnlyFetchFails ==
    [][ /\ (pc # "poll" /\ poll_result' = "Err") => UNCHANGED poll_result
        /\ (pc \in {"check", "join"} /\ pc' \notin {"check", "join"})
              => (poll_result = "running" /\ poll_result' = "Ok") ]_vars

\* C34 witness: a cycle has returned Ok although one task panicked, another
\* ended with a failed delivery and a history insert of it failed
C34_Witness ==
    /\ poll_result = "Ok"
    /\ pc = "sleep"
    /\ cycle = 1
    /\ last_fanout.cycle = 1
    /\ \E d \in last_fanout.deliveries : d.result = "panicked"
    /\ \E d \in last_fanout.deliveries :
          /\ d.result = "failed"
          /\ \A row \in BagToSet(forward_history) :
                ~(row.connector_name = d.connector
                     /\ row.problem_id = d.problem.problem_id)

\* the positions, among the first n fetched records, of those classified
\* NewProblem or StatusChange
EmittedAt(n) ==
    { m \in 1..n : actions[m] \in {"NewProblem", "StatusChange"} }

\* the records at these positions of the fetch result, in fetch order
RECURSIVE Picked(_, _)
Picked(positions, n) ==
    IF n = 0
    THEN << >>
    ELSE IF n \in positions
    THEN Append(Picked(positions, n - 1), response[n])
    ELSE Picked(positions, n - 1)

\* C35: at every point of a cycle the forward list is, occurrence by
\* occurrence and in fetch order, the fetched records classified NewProblem
\* or StatusChange so far; a record whose lookup, insert or update failed has
\* an Err outcome and no place on it. The fan-out's tasks carry the records
\* of that list and no other: a batch connector's task the whole list, an
\* individual connector's tasks one record of it each.
C35_ErroredNotEmitted ==
    pc \in {"check", "join"} =>
       /\ Len(actions) = i
       /\ problems_to_forward = Picked(EmittedAt(i), i)
       /\ pc = "join" =>
             /\ i = Len(response)
             /\ \A k \in 1..Len(forward_tasks) :
                   IF is_batch_mode(connectors[forward_tasks[k].connector])
                   THEN forward_tasks[k].problems = problems_to_forward
                   ELSE \E m \in EmittedAt(i) :
                           forward_tasks[k].problems = << response[m] >>
             /\ \A m \in EmittedAt(i), c \in 1..Len(connectors) :
                   \E k \in 1..Len(forward_tasks) :
                      /\ forward_tasks[k].connector = c
                      /\ \E n \in 1..Len(forward_tasks[k].problems) :
                            forward_tasks[k].problems[n] = response[m]

\* C35 witness: the update for the first fetched record, P1 with a status
\* other than the stored one, failed and the second record was classified:
\* the task carries the second record alone and P1's row has the old status
C35_Witness ==
    /\ pc = "join"
    /\ Len(response) = 2
    /\ actions[1] = "Err(update_problem_status)"
    /\ actions[2] \in {"NewProblem", "StatusChange"}
    /\ response[1].problem_id = "P1"
    /\ response[2].problem_id = "P2"
    /\ get_problem(forwarded_problems, "P1")[1].status # to_string(response[1].status)
    /\ Len(forward_tasks) = 1
    /\ forward_tasks[1].problems = << response[2] >>

\* the positions, among the records classified so far, of problem id
Occurrences(id) == { m \in 1..i : response[m].problem_id = id }

\* the fetch result names id more than once, every time with the same status
Repeated(id) ==
    /\ Cardinality({ m \in 1..Len(response) : response[m].problem_id = id }) > 1
    /\ \A a, b \in 1..Len(response) :
          (response[a].problem_id = id /\ response[b].problem_id = id)
             => response[a].status = response[b].status

\* the occurrences of id classified without a store error
ClassifiedOk(id) == { m \in Occurrences(id) : ~IsErr(actions[m]) }

\* C36 as stated: of a problem id fetched more than once with one status at
\* most one occurrence is emitted, every occurrence after the first is
\* classified Skipped (UNCHANGED), and when the loop is done the store holds
\* one row for the id.
C36_LaterOccurrencesUnchanged ==
    pc \in {"check", "join"} =>
       \A id \in ProblemIds :
          Repeated(id) =>
             /\ Cardinality(Occurrences(id) \cap EmittedAt(i)) <= 1
             /\ \A a, b \in Occurrences(id) : a < b => actions[b] = "Skipped"
             /\ i = Len(response) => Len(RowsOf(forwarded_problems, id)) = 1

\* C36 amended: the store holds at most one row for the id; as long as
\* clear-cache has not run since the cycle's classification began, at most
\* one occurrence is emitted, and it is the first one classified without a
\* store error, every occurrence after that one is Skipped or fails in its
\* lookup, and once an occurrence is classified the row has the fetched
\* status. The first occurrence not preceded by a classified one is
\* classified by the row get_problem returns for it: NewProblem without a
\* row, StatusChange with a row of another status, Skipped with a row of the
\* same status, or Err.
C36_FirstClassifiedDecides ==
    /\ [](pc \in {"check", "join"} =>
            \A id \in ProblemIds :
               Repeated(id) =>
                  /\ Len(RowsOf(forwarded_problems, id)) <= 1
                  /\ ~ClearedInCycle =>
                        /\ Cardinality(Occurrences(id) \cap EmittedAt(i)) <= 1
                        /\ \A b \in Occurrences(id) :
                              IF \E a \in ClassifiedOk(id) : a < b
                              THEN actions[b] \in {"Skipped", "Err(get_problem)"}
                              ELSE b \in EmittedAt(i) \/ actions[b] = "Skipped"
                                                      \/ IsErr(actions[b])
                        /\ ClassifiedOk(id) # {} =>
                              /\ is_some(get_problem(forwarded_problems, id))
                              /\ \A m \in ClassifiedOk(id) :
                                    get_problem(forwarded_problems, id)[1].status =
                                       to_string(response[m].status))
    /\ [][ (CheckStep /\ Repeated(Current.problem_id)
                      /\ ClassifiedOk(Current.problem_id) = {})
              => \/ IsErr(Outcome)
                 \/ Outcome = (IF ~is_some(Stored) THEN "NewProblem"
                               ELSE IF Stored[1].status # to_string(Current.status)
                               THEN "StatusChange"
                               ELSE "Skipped") ]_vars

\* C36 witness: P1 was fetched three times as OPEN over a store without it;
\* the insert for the first occurrence failed, the second was classified
\* NewProblem and the third Skipped; one task carries the record once and
\* the store has one row for P1
C36_Witness ==
    /\ pc = "join"
    /\ Len(response) = 3
    /\ Repeated("P1")
    /\ actions = << "Err(insert_problem)", "NewProblem", "Skipped" >>
    /\ Len(forward_tasks) = 1
    /\ forward_tasks[1].problems = << response[2] >>
    /\ Len(RowsOf(forwarded_problems, "P1")) = 1

\* the connector of this name is a batch connector
BatchNamed(name) ==
    \E c \in 1..Len(connectors) : connectors[c].name = name /\ is_batch_mode(connectors[c])

\* C37: every row of forward_history is either a "success" with a response
\* code (a 2xx one) and no error message, or a "failed" with an error message
\* and no response code; the rows one batch task wrote (those of a batch
\* connector in one cycle) all carry the same status, response code and
\* error message.
C37_HistoryOutcomes ==
    /\ \A h \in BagToSet(forward_history) :
          \/ /\ h.status = "success"
             /\ is_some(h.response_code)
             /\ is_success(h.response_code[1])
             /\ h.error_message = None
          \/ /\ h.status = "failed"
             /\ is_some(h.error_message)
             /\ h.response_code = None
    /\ \A h, g \in BagToSet(forward_history) :
          (BatchNamed(h.connector_name) /\ g.connector_name = h.connector_name
                                        /\ g.forwarded_at = h.forwarded_at)
             => /\ g.status = h.status
                /\ g.response_code = h.response_code
                /\ g.error_message = h.error_message

\* C37 witness: in one cycle the batch task wrote two "success" rows with
\* code 200 and the individual connector's tasks two "failed" rows with an
\* error message
C37_Witness ==
    /\ cycle = 1
    /\ BagCardinality(forward_history) = 4
    /\ \A id \in ProblemIds :
          /\ ForwardHistoryNew(id, "siem", "success", Some(200), None, now)
                \in BagToSet(forward_history)
          /\ ForwardHistoryNew(id, "pager", "failed", None, Some("HTTP error"), now)
                \in BagToSet(forward_history)

====
